---- MODULE Spec2Model ----
(***************************************************************************)
(* Model of the research-agent project state and of the three cooperating  *)
(* pieces of elad12390/online-research that own it:                        *)
(*   - the link checker (scripts/utils/html_validator.py, duplicated       *)
(*     verbatim in mcp-servers/filesystem-server.py and                    *)
(*     scripts/research-agent.py),                                         *)
(*   - the two writers of .research-progress.json                          *)
(*     (update_research_progress of the filesystem server and              *)
(*     update_progress of the agent),                                      *)
(*   - message_loop of the agent, polling .messages.json.                  *)
(*                                                                         *)
(* Strings are modelled as sequences of tokens: the literals that the code *)
(* tests for ("http://", "?", "#", "/", " ", ...) are single tokens and    *)
(* every other run of characters (a file name, a host, a query) is one     *)
(* opaque token.  startswith, strip, split and lstrip are computed on      *)
(* these sequences as Python computes them on characters.                  *)
(***************************************************************************)
EXTENDS Integers, Sequences, FiniteSets, TLC

VARIABLES
    projectExists,      \* the project directory exists
    fs,                 \* files below the project root: path -> file state
    kill,               \* the .kill sentinel is present
    killedAt,           \* history: what message_loop was doing when the sentinel appeared
    now,                \* datetime.utcnow(), in ticks
    progress,           \* content of .research-progress.json
    progressFile,       \* .research-progress.json: parsable or not, completedTasks, startedAt
    lastWrite,          \* history: the request and the surroundings of the last progress write
    messagesFile,       \* content of .messages.json
    pc,                 \* position of the agent process
    phase,              \* run_research: index of the next phase update
    messages,           \* message_loop: the list loaded by the current poll pass
    idx,                \* message_loop: position of the for loop in messages
    last_message_id,    \* message_loop: last_message_id
    consecutive_errors, \* message_loop: consecutive_errors
    response,           \* message_loop: text returned by the in-flight llm turn
    trace,              \* history: what the current loop iteration has done so far
    calls,              \* history: llm.generate_str invocations per message id
    marked,             \* history: ids the loop has persisted with processed = true
    callsAfterMarked,   \* history: llm invocations per id made after the id was in marked
    appended,           \* history: another writer appended a message since the loop started
    dropped,            \* history: ids that were in .messages.json until a write of the loop
    session,            \* history: the percentages persisted by the agent process so far
    last_tool_called,   \* ToolCallHandler.last_tool_called ("" for None)
    pending_tool_call,  \* ToolCallHandler.pending_tool_call
    stdout,             \* the events printed by ToolCallHandler.emit
    stderr,             \* what the last emit wrote to stderr
    activitiesFile,     \* content of .activities.json
    handed,             \* history: the activities passed to write_activity_to_file
    lines,              \* history: number of log records handled
    lastEmit,           \* history: the last log record and the handler state it met
    ALLOWED_BASE_DIRS,  \* the directories the filesystem server may work in, resolved
    disk,               \* the files and directories the filesystem tools see
    result              \* history: the last filesystem tool call and its outcome

fsVars   == <<projectExists, fs, kill, killedAt, now>>
progVars == <<progress, progressFile, lastWrite>>
loopVars == <<pc, phase, messages, idx, last_message_id, consecutive_errors, response>>
histVars == <<trace, calls, marked, callsAfterMarked, appended, dropped, session>>
logVars  == <<last_tool_called, pending_tool_call, stdout, stderr, activitiesFile, handed,
              lines, lastEmit>>
toolVars == <<ALLOWED_BASE_DIRS, disk, result>>
vars     == <<fsVars, progVars, messagesFile, loopVars, histVars, logVars, toolVars>>

(***************************************************************************)
(* Token strings                                                           *)
(***************************************************************************)

SkipPrefixes_no_mailto == {"http://", "https://", "#", "data:", "javascript:"}

\* The tuple passed to link.startswith(...)
SkipPrefixes == {"http://", "https://", "mailto:", "#", "data:", "javascript:"}

\* str.startswith(tuple)
StartsWithAny(s, prefixes) == s # <<>> /\ Head(s) \in prefixes

\* str.strip() leaves nothing: the value is empty or whitespace only
IsBlank(s) == \A i \in 1..Len(s) : s[i] = " "

\* s.split(t)[0]: the part of s before the first occurrence of t
RECURSIVE SplitFirst(_, _)
SplitFirst(s, t) ==
    IF s = <<>> \/ Head(s) = t THEN <<>>
    ELSE <<Head(s)>> \o SplitFirst(Tail(s), t)

\* s.lstrip(t)
RECURSIVE LStrip(_, _)
LStrip(s, t) == IF s # <<>> /\ Head(s) = t THEN LStrip(Tail(s), t) ELSE s

\* The components pathlib keeps of a relative path string: split on "/",
\* empty components dropped.
RECURSIVE PathParts(_)
PathParts(s) ==
    LET r == LStrip(s, "/")
        first == SplitFirst(r, "/")
    IN  IF r = <<>> THEN <<>>
        ELSE <<first>> \o PathParts(SubSeq(r, Len(first) + 1, Len(r)))

(***************************************************************************)
(* The project directory                                                   *)
(***************************************************************************)

IndexHtml   == <<"index.html">>
MissingHtml == <<"missing.html">>
SubPage     == <<"sub", "page.html">>

\* The paths a file can have in the model (names are single tokens).
Paths == {IndexHtml, MissingHtml, SubPage}

\* Names matched by the glob pattern "*.html" (case-sensitive suffix).
HtmlNames == {"index.html", "missing.html", "page.html"}

NoFile == [exists |-> FALSE, readable |-> FALSE, attrs |-> <<>>]

\* A file: attrs is the sequence of quoted attributes in its text, in
\* document order; readable is FALSE when read_text(encoding="utf-8") raises.
File(attrs, readable) == [exists |-> TRUE, readable |-> readable, attrs |-> attrs]

EmptyFile == File(<<>>, TRUE)

Attr(name, value) == [name |-> name, value |-> value]

(***************************************************************************)
(* Link checker                                                            *)
(***************************************************************************)

\* Attribute names the pattern (?:href|src)= finds with re.IGNORECASE; the
\* pattern is not anchored, so data-src matches too.  title does not match.
MatchedAttrNames == {"href", "src", "HREF", "SRC", "data-src"}

\* re.findall(pattern, html_content, re.IGNORECASE): the captured values, in
\* document order.  [^"']+ needs at least one character.
RECURSIVE FindAll(_)
FindAll(attrs) ==
    IF attrs = <<>> THEN <<>>
    ELSE LET a == Head(attrs)
         IN  (IF a.name \in MatchedAttrNames /\ a.value # <<>> THEN <<a.value>> ELSE <<>>)
             \o FindAll(Tail(attrs))

\* A loop body that removes the query string but keeps the fragment
AddLink_keeps_fragment(links, link) ==
    IF StartsWithAny(link, SkipPrefixes) THEN links
    ELSE IF IsBlank(link) THEN links
    ELSE LET l == SplitFirst(link, "?")
         IN  IF l # <<>> THEN links \cup {l} ELSE links

\* The body of "for link in matches": the set after handling one match.
AddLink(links, link) ==
    IF StartsWithAny(link, SkipPrefixes) THEN links
    ELSE IF IsBlank(link) THEN links
    ELSE LET l == SplitFirst(SplitFirst(link, "?"), "#")
         IN  IF l # <<>> THEN links \cup {l} ELSE links

RECURSIVE ExtractLoop(_, _)
ExtractLoop(links, matches) ==
    IF matches = <<>> THEN links
    ELSE ExtractLoop(AddLink(links, Head(matches)), Tail(matches))

extract_local_links_from_html(attrs) == ExtractLoop({}, FindAll(attrs))

\* Path.exists() of project_dir / parts, in the given state of the directory:
\* the root, an existing file, or a directory that holds an existing file.
PathExists(files, parts) ==
    /\ \A i \in 1..Len(parts) : Len(parts[i]) = 1
    /\ LET p == [i \in 1..Len(parts) |-> parts[i][1]]
       IN  \/ p = <<>>
           \/ p \in Paths /\ files[p].exists
           \/ \E q \in Paths : /\ files[q].exists
                               /\ Len(q) > Len(p)
                               /\ SubSeq(q, 1, Len(p)) = p

\* html_file.parent as path components
Parent(doc) == [i \in 1..(Len(doc) - 1) |-> <<doc[i]>>]

\* linked_path for a link found in html_file
LinkedPath(doc, link) ==
    IF link # <<>> /\ Head(link) = "/"
    THEN PathParts(LStrip(link, "/"))
    ELSE Parent(doc) \o PathParts(link)

\* A set as a sequence, in some fixed order (glob and set iteration orders
\* are arbitrary but fixed for one call).
RECURSIVE SetToSeq(_)
SetToSeq(S) ==
    IF S = {} THEN <<>>
    ELSE LET x == CHOOSE y \in S : TRUE IN <<x>> \o SetToSeq(S \ {x})

\* project_dir.glob("*.html")
GlobRoot(files) ==
    SetToSeq({p \in Paths : files[p].exists /\ Len(p) = 1 /\ p[1] \in HtmlNames})

\* project_dir.glob("**/*.html"): ** also matches the root itself
GlobRecursive(files) ==
    SetToSeq({p \in Paths : files[p].exists /\ p[Len(p)] \in HtmlNames})

\* missing_for_file of one readable document (a list without repetitions,
\* in set-iteration order: modelled as a set)
MissingForFile(files, doc) ==
    {link \in extract_local_links_from_html(files[doc].attrs) :
        ~PathExists(files, LinkedPath(doc, link))}

\* A scan that gives every readable document a key
ScanFile_keys_every_document(files, missing_files, doc) ==
    IF ~files[doc].readable THEN missing_files
    ELSE LET missing_for_file == MissingForFile(files, doc)
         IN  [d \in DOMAIN missing_files \cup {doc} |->
                 IF d = doc THEN missing_for_file ELSE missing_files[d]]

\* The body of "for html_file in html_files": the dict after one document.
ScanFile(files, missing_files, doc) ==
    IF ~files[doc].readable THEN missing_files          \* except Exception: pass
    ELSE LET missing_for_file == MissingForFile(files, doc)
         IN  IF missing_for_file # {}
             THEN [d \in DOMAIN missing_files \cup {doc} |->
                      IF d = doc THEN missing_for_file ELSE missing_files[d]]
             ELSE missing_files

RECURSIVE ScanLoop(_, _, _)
ScanLoop(files, missing_files, html_files) ==
    IF html_files = <<>> THEN missing_files
    ELSE ScanLoop(files, ScanFile(files, missing_files, Head(html_files)), Tail(html_files))

EmptyMap == [d \in {} |-> {}]

\* Returns the dict document -> missing links.
check_missing_files_in_project(files) ==
    ScanLoop(files, EmptyMap, GlobRoot(files) \o GlobRecursive(files))

\* sum(len(links) for links in missing_files.values())
RECURSIVE SumLen(_, _)
SumLen(m, docs) ==
    IF docs = {} THEN 0
    ELSE LET d == CHOOSE x \in docs : TRUE
         IN  Cardinality(m[d]) + SumLen(m, docs \ {d})

\* A count that takes a document once for each time the scan visited it
TotalMissing_per_visit(missing_files) ==
    SumLen(missing_files, DOMAIN missing_files)
        + SumLen(missing_files, {d \in DOMAIN missing_files : Len(d) = 1})

TotalMissing(missing_files) == SumLen(missing_files, DOMAIN missing_files)

(***************************************************************************)
(* Progress store                                                          *)
(***************************************************************************)

COMPLETION_THRESHOLD == 90
BLOCKED_PERCENTAGE   == 85

BlockedTask == "BLOCKED: Missing files"

\* A currentTaskDescription: a format with its numeric and string arguments.
Desc(fmt, n, s) == [fmt |-> fmt, n |-> n, s |-> s]

CallerDesc(text)  == Desc("{task_description}", 0, text)
WorkingOn(task)   == Desc("Currently working on: {current_task}", 0, task)
ServerBlocked(n)  == Desc("Cannot complete - {total_missing} referenced files not created yet", n, "")
AgentBlocked(n)   == Desc("Cannot complete - {total_missing} referenced files not created", n, "")

\* No .research-progress.json yet
NoRecord == [written |-> FALSE, percentage |-> 0, currentTask |-> "",
             currentTaskDescription |-> Desc("", 0, "")]

Record(percentage, task, desc) ==
    [written |-> TRUE, percentage |-> percentage, currentTask |-> task,
     currentTaskDescription |-> desc]

Min(a, b) == IF a < b THEN a ELSE b
Max(a, b) == IF a > b THEN a ELSE b

\* A clamp without the lower limit
Clamp_no_floor(percentage) == Min(100, percentage)

\* min(100, max(0, percentage))
Clamp(percentage) == Min(100, Max(0, percentage))

GateBlocks_above(percentage, missing_files) ==
    percentage > COMPLETION_THRESHOLD /\ DOMAIN missing_files # {}

GateBlocks_from85(percentage, missing_files) ==
    percentage >= BLOCKED_PERCENTAGE /\ DOMAIN missing_files # {}

\* "if percentage >= 90 and missing_files" of update_research_progress
GateBlocks(percentage, missing_files) ==
    percentage >= COMPLETION_THRESHOLD /\ DOMAIN missing_files # {}

\* A gate that stays closed once it has blocked
ServerRecord_sticky(files, percentage, current_task, task_description) ==
    LET missing_files == check_missing_files_in_project(files)
    IN  IF percentage >= COMPLETION_THRESHOLD
           /\ (DOMAIN missing_files # {} \/ progress.currentTask = BlockedTask)
        THEN Record(BLOCKED_PERCENTAGE, BlockedTask, ServerBlocked(TotalMissing(missing_files)))
        ELSE Record(Clamp(percentage), current_task, CallerDesc(task_description))

\* The record update_research_progress writes (filesystem server).
ServerRecord(files, percentage, current_task, task_description) ==
    LET missing_files == check_missing_files_in_project(files)
    IN  IF GateBlocks(percentage, missing_files)
        THEN Record(BLOCKED_PERCENTAGE, BlockedTask, ServerBlocked(TotalMissing(missing_files)))
        ELSE Record(Clamp(percentage), current_task, CallerDesc(task_description))

NoTime == 0

\* The fields of .research-progress.json beside the three of Record; the file
\* exists when progress.written
NoProgressFile == [malformed |-> FALSE, completedTasks |-> <<>>, startedAt |-> NoTime]

Range(s) == {s[i] : i \in 1..Len(s)}

\* completedTasks and startedAt as update_research_progress writes them: read
\* from the existing file when it parses, the task appended "if we're
\* progressing", startedAt kept when there is one
ServerFile(percentage, current_task) ==
    LET parsed == progress.written /\ ~progressFile.malformed
        completed_tasks == IF parsed THEN progressFile.completedTasks ELSE <<>>
        started_at == IF parsed THEN progressFile.startedAt ELSE NoTime
    IN  [malformed |-> FALSE,
         completedTasks |->
             IF percentage > 0 /\ current_task \notin Range(completed_tasks) /\ percentage < 100
             THEN Append(completed_tasks, current_task)
             ELSE completed_tasks,
         startedAt |-> IF started_at # NoTime THEN started_at ELSE now]

\* completedTasks and startedAt as update_progress writes them: the caller's
\* list and the current time
AgentFile(completed_tasks) ==
    [malformed |-> FALSE, completedTasks |-> completed_tasks, startedAt |-> now]

\* update_progress without the check
AgentRecord_unchecked(files, percentage, current_task) ==
    Record(percentage, current_task, WorkingOn(current_task))

\* The record update_progress writes (agent); the checker runs only when
\* percentage >= 90, and the percentage is not clamped.
AgentRecord(files, percentage, current_task) ==
    IF percentage >= COMPLETION_THRESHOLD
    THEN LET missing_files == check_missing_files_in_project(files)
         IN  IF DOMAIN missing_files # {}
             THEN Record(BLOCKED_PERCENTAGE, BlockedTask, AgentBlocked(TotalMissing(missing_files)))
             ELSE Record(percentage, current_task, WorkingOn(current_task))
    ELSE Record(percentage, current_task, WorkingOn(current_task))

(***************************************************************************)
(* What a document references, stated on the document itself (not on the   *)
(* scan): used by the history variable lastWrite.                          *)
(***************************************************************************)

\* The value of a matched attribute is a local reference
IsLocalValue(v) == v # <<>> /\ Head(v) \notin SkipPrefixes /\ ~IsBlank(v)

\* The file part of a local reference: without query string and fragment
Target(v) == SplitFirst(SplitFirst(v, "?"), "#")

\* The local files a document's text references
References(file) ==
    {Target(file.attrs[i].value) :
        i \in {j \in 1..Len(file.attrs) :
                 /\ file.attrs[j].name \in MatchedAttrNames
                 /\ IsLocalValue(file.attrs[j].value)
                 /\ Target(file.attrs[j].value) # <<>>}}

HtmlDocs(files) == {p \in Paths : files[p].exists /\ p[Len(p)] \in HtmlNames}

\* The (document, reference) pairs whose file is absent, over the documents in docs
AbsentPairs(files, docs) ==
    {pr \in UNION {{<<d, r>> : r \in References(files[d])} : d \in docs} :
        ~PathExists(files, LinkedPath(pr[1], pr[2]))}

ReadableDocs(files) == {d \in HtmlDocs(files) : files[d].readable}

ExternalPrefixes == {"http://", "https://", "mailto:"}

\* Every href/src value of every document is an http, https or mailto link
OnlyExternalLinks(files) ==
    \A d \in HtmlDocs(files) : \A i \in 1..Len(files[d].attrs) :
        files[d].attrs[i].name \in MatchedAttrNames
            => StartsWithAny(files[d].attrs[i].value, ExternalPrefixes)

LinkKind(files) ==
    IF HtmlDocs(files) = {} THEN "no_documents"
    ELSE IF OnlyExternalLinks(files) THEN "external_only"
    ELSE "other"

\* No sentinel has appeared
NoKill == [pc |-> "", id |-> 0]

NoWrite == [writer |-> "none", percentage |-> 0, current_task |-> "", task_description |-> "",
            absentAny |-> 0, absentReadable |-> 0, links |-> "other", blockedBefore |-> FALSE]

NoDrop == [from |-> 0, request |-> 0, to |-> 0, current_task |-> ""]

NoSession == [written |-> FALSE, percentage |-> 0, drop |-> NoDrop]

\* The history of the agent process's own writes after one more of them: the
\* percentage it persisted last and, when a write persisted less than the
\* write before it, that write
SessionWrite(s, percentage, current_task, record) ==
    [written |-> TRUE, percentage |-> record.percentage,
     drop |-> IF s.written /\ record.percentage < s.percentage
              THEN [from |-> s.percentage, request |-> percentage, to |-> record.percentage,
                    current_task |-> current_task]
              ELSE s.drop]

\* The history record of one progress write: who asked for what, how many
\* absent references the project's documents held at that moment, and whether
\* the record it replaces was a blocked one (or an earlier one was).
WriteInfo(writer, files, percentage, current_task, task_description) ==
    [writer |-> writer, percentage |-> percentage, current_task |-> current_task,
     task_description |-> task_description,
     absentAny |-> Cardinality(AbsentPairs(files, HtmlDocs(files))),
     absentReadable |-> Cardinality(AbsentPairs(files, ReadableDocs(files))),
     links |-> LinkKind(files),
     blockedBefore |-> lastWrite.blockedBefore \/ progress.currentTask = BlockedTask]

(***************************************************************************)
(* Inputs                                                                  *)
(***************************************************************************)

Href(v) == Attr("href", v)

\* Texts of index.html
IndexTexts == {
    <<>>,
    <<Href(<<"missing.html">>)>>,
    <<Href(<<"a.html", "?", "x=1", "#", "s">>), Href(<<"a.html">>)>>,
    <<Href(<<"https://", "example.com">>), Href(<<"mailto:", "test@test.com">>),
      Href(<<"http://", "example.com">>)>>,
    <<Attr("HREF", <<"/", "sub", "/", "page.html">>), Attr("src", <<"logo.png">>)>>,
    <<Href(<<"#", "s">>), Attr("src", <<"data:", "image/png">>),
      Href(<<"javascript:", "void(0)">>), Href(<<" ", " ">>),
      Attr("title", <<"missing.html">>), Href(<<"?", "x=1">>)>>,
    <<Href(<<"missing.html">>), Attr("src", <<"logo.png">>), Href(<<"missing.html">>)>>,
    <<Href(<<"sub", "/", "page.html">>), Attr("data-src", <<"missing.html", "#", "s">>)>>,
    <<Href(<<"my", " ", "file.html">>)>> }

\* Texts of sub/page.html
SubPageTexts == {
    <<>>,
    <<Href(<<"missing.html">>)>>,
    <<Href(<<"/", "missing.html">>)>>,
    <<Href(<<"page.html">>), Href(<<"/", "index.html">>), Href(<<"https://", "example.com">>)>> }

\* The files a writer can put at a path when the link checker is examined
GateFiles(path) ==
    IF path = IndexHtml
    THEN {File(t, TRUE) : t \in IndexTexts} \cup {File(<<Href(<<"missing.html">>)>>, FALSE)}
    ELSE IF path = SubPage
    THEN {File(t, TRUE) : t \in SubPageTexts} \cup {File(<<Href(<<"/", "missing.html">>)>>, FALSE)}
    ELSE {EmptyFile}

\* The files a writer can put at a path while the agent session runs
LoopFiles(path) ==
    IF path = IndexHtml
    THEN {File(<<Href(<<"missing.html">>)>>, TRUE), File(<<Href(<<"missing.html">>)>>, FALSE)}
    ELSE IF path = MissingHtml THEN {EmptyFile}
    ELSE {}

Percentages == {-10, 50, 89, 90, 100, 150}
Tasks       == {"Writing files", "Complete"}
TaskDescriptions == {"Creating the report pages"}

\* The task named by the writers when the gate is examined
GateTasks == {"Writing files"}

(***************************************************************************)
(* Activity store                                                          *)
(***************************************************************************)

ACTIVITY_MAX_COUNT == 1000

\* A text built by the handler: a literal, or a format with the part of the
\* log record that fills it
Payload(fmt, s) == [fmt |-> fmt, s |-> s]

NoId == [ms |-> 0, type |-> ""]

\* The dictionary built for one event; "id" is added by write_activity_to_file
\* after the event has been printed.  line is history: the log record the
\* event comes from.
Activity(type, tool, text) ==
    [type |-> type, tool |-> tool, text |-> text, timestamp |-> now, line |-> lines + 1,
     id |-> NoId]

NoActivities == [exists |-> FALSE, malformed |-> FALSE, list |-> <<>>]

Stored(list) == [exists |-> TRUE, malformed |-> FALSE, list |-> list]

\* f"activity_{int(datetime.now().timestamp() * 1000)}_{activity['type']}"
ActivityId(activity) == [ms |-> now, type |-> activity.type]

\* activities[-n:]
LastN(s, n) == SubSeq(s, Len(s) - n + 1, Len(s))

Returned(file, text) == [file |-> file, stderr |-> text, raised |-> FALSE]

\* A store that keeps the first 1000 entries
write_activity_to_file_keeps_oldest(file, activity, ok) ==
    LET loaded == IF file.exists /\ ~file.malformed THEN file.list ELSE <<>>
        activities == Append(loaded, [activity EXCEPT !.id = ActivityId(activity)])
        kept == IF Len(activities) > ACTIVITY_MAX_COUNT
                THEN SubSeq(activities, 1, ACTIVITY_MAX_COUNT)
                ELSE activities
    IN  IF ok
        THEN Returned(Stored(kept), "")
        ELSE Returned(file, "Failed to write activity file")

\* A store without the outer try: the failed write reaches the caller
write_activity_to_file_unguarded(file, activity, ok) ==
    LET loaded == IF file.exists /\ ~file.malformed THEN file.list ELSE <<>>
        activities == Append(loaded, [activity EXCEPT !.id = ActivityId(activity)])
        kept == IF Len(activities) > ACTIVITY_MAX_COUNT
                THEN LastN(activities, ACTIVITY_MAX_COUNT)
                ELSE activities
    IN  IF ok
        THEN Returned(Stored(kept), "")
        ELSE [file |-> file, stderr |-> "", raised |-> TRUE]

\* A store that puts the new activity first
write_activity_to_file_prepends(file, activity, ok) ==
    LET loaded == IF file.exists /\ ~file.malformed THEN file.list ELSE <<>>
        activities == <<[activity EXCEPT !.id = ActivityId(activity)]>> \o loaded
        kept == IF Len(activities) > ACTIVITY_MAX_COUNT
                THEN LastN(activities, ACTIVITY_MAX_COUNT)
                ELSE activities
    IN  IF ok
        THEN Returned(Stored(kept), "")
        ELSE Returned(file, "Failed to write activity file")

\* write_activity_to_file: the new content of .activities.json and what is
\* written to stderr; ok tells whether activities_file.write_text succeeds.
\* Both try blocks catch everything, so the function always returns.
write_activity_to_file(file, activity, ok) ==
    LET loaded == IF file.exists /\ ~file.malformed THEN file.list ELSE <<>>
        activities == Append(loaded, [activity EXCEPT !.id = ActivityId(activity)])
        kept == IF Len(activities) > ACTIVITY_MAX_COUNT
                THEN LastN(activities, ACTIVITY_MAX_COUNT)
                ELSE activities
    IN  IF ok
        THEN Returned(Stored(kept), "")
        ELSE Returned(file, "Failed to write activity file")

(***************************************************************************)
(* Log event classifier (ToolCallHandler.emit)                             *)
(*                                                                         *)
(* A log record is modelled by what the handler's tests find in its        *)
(* message: substrings present or not, and the group captured by each      *)
(* regular expression ("" when the expression does not match).             *)
(***************************************************************************)

\* A message in which no test finds anything
Plain ==
    [sensitive   |-> FALSE,  \* "idempotency_key" in msg or "api_key" in msg
     requesting  |-> FALSE,  \* "Requesting tool call" in msg
     tool_name   |-> "",     \* "tool_name":\s*"([a-zA-Z0-9_.-]+)"
     name        |-> "",     \* "name":\s*"([a-zA-Z0-9_.-]+)"
     tools_call  |-> FALSE,  \* '"method": "tools/call"' in msg
     line_action |-> "",     \* ^Action:\s+([a-zA-Z0-9_]+), re.MULTILINE
     verb_args   |-> "",     \* verb, tool|function, name, with args|arguments|parameters {...}
     args        |-> <<>>,   \*    its second group
     verb        |-> "",     \* verb, tool|function, name
     remaining   |-> <<>>,   \*    msg[tool_match_simple.end():].strip()
     prefixes    |-> {},     \* which of Thought: Reasoning: Plan: Action: are in msg
     action      |-> "",     \* Action:\s+([a-zA-Z0-9_]+) anywhere
     results     |-> FALSE,  \* "Tool call results:" in msg
     output      |-> <<>>]   \* content_to_show

\* candidate.lower() and output.lower() on the tokens used here
Lower(t) ==
    IF t = "To" THEN "to"
    ELSE IF t = "Progress updated:" THEN "progress updated:"
    ELSE IF t = "Successfully wrote" THEN "successfully wrote"
    ELSE t

MethodNames == {"tools/call", "call"}

BlockList == {"to", "call", "be", "the", "a", "an", "with", "for", "jsonrpc", "mcp_agent"}

HasLower(output, tokens) == \E i \in 1..Len(output) : Lower(output[i]) \in tokens

infer_tool_from_output(output) ==
    IF HasLower(output, {"progress updated:"}) THEN "update_research_progress"
    ELSE IF HasLower(output, {"metadata saved", "title:"}) THEN "write_research_metadata"
    ELSE IF HasLower(output, {"successfully wrote", "characters to"}) THEN "write_file"
    ELSE IF HasLower(output, {"https://", "http://", "www."}) THEN "web_search"
    ELSE IF HasLower(output, {"directory created", "created directory"}) THEN "create_directory"
    ELSE "Unknown Tool"

\* The content of a thought: what follows the first of Thought:, Reasoning:,
\* Plan: (in this order) that is in the message, else the whole message
Content(line) ==
    IF "Thought:" \in line.prefixes THEN Payload("parts[1].strip()", <<"Thought:">>)
    ELSE IF "Reasoning:" \in line.prefixes THEN Payload("parts[1].strip()", <<"Reasoning:">>)
    ELSE IF "Plan:" \in line.prefixes THEN Payload("parts[1].strip()", <<"Plan:">>)
    ELSE Payload("msg", <<>>)

\* What one call of emit does: the branch taken (1..9, 10 when the end of the
\* method is reached), the events printed, whether the event is passed to
\* write_activity_to_file, and the two class attributes afterwards
Outcome(rule, events, stored, last, pending) ==
    [rule |-> rule, events |-> events, stored |-> stored,
     last_tool_called |-> last, pending_tool_call |-> pending]

\* A handler that looks for the quoted tool_name before the announcement
Classify_tool_name_first(line, last, pending) ==
    IF line.sensitive THEN Outcome(1, <<>>, FALSE, last, pending)
    ELSE IF line.tool_name # ""
    THEN Outcome(3, <<Activity("tool_call", line.tool_name,
                               Payload("(streaming - args in separate message)", <<>>))>>,
                 TRUE, line.tool_name, FALSE)
    ELSE IF line.requesting THEN Outcome(2, <<>>, FALSE, last, TRUE)
    ELSE IF (pending \/ line.tools_call) /\ line.name # "" /\ line.name \notin MethodNames
    THEN Outcome(4, <<Activity("tool_call", line.name, Payload("(streaming)", <<>>))>>,
                 TRUE, line.name, FALSE)
    ELSE IF line.line_action # ""
    THEN Outcome(5, <<Activity("tool_call", line.line_action,
                               Payload("Action format (args not extracted)", <<>>))>>,
                 TRUE, line.line_action, pending)
    ELSE IF line.verb_args # ""
    THEN Outcome(6, <<Activity("tool_call", line.verb_args, Payload("tool_args", line.args))>>,
                 TRUE, line.verb_args, pending)
    ELSE IF line.verb # "" /\ Lower(line.verb) \notin BlockList
    THEN Outcome(7, <<Activity("tool_call", line.verb,
                               IF line.remaining # <<>>
                               THEN Payload("remaining", line.remaining)
                               ELSE Payload("No arguments provided", <<>>))>>,
                 FALSE, line.verb, pending)
    ELSE IF line.prefixes # {}
    THEN Outcome(8, <<Activity("thought", "", Content(line))>>,
                 TRUE, IF line.action # "" THEN line.action ELSE last, pending)
    ELSE IF line.results
    THEN IF line.output # <<>>
         THEN Outcome(9, <<Activity("tool_result",
                                    IF last # "" THEN last ELSE infer_tool_from_output(line.output),
                                    Payload("content_to_show", line.output))>>,
                      TRUE, last, pending)
         ELSE Outcome(9, <<>>, FALSE, last, pending)
    ELSE Outcome(10, <<>>, FALSE, last, pending)

\* emit with an Action: line that clears pending_tool_call
Classify_action_clears(line, last, pending) ==
    IF line.sensitive THEN Outcome(1, <<>>, FALSE, last, pending)
    ELSE IF line.requesting THEN Outcome(2, <<>>, FALSE, last, TRUE)
    ELSE IF line.tool_name # ""
    THEN Outcome(3, <<Activity("tool_call", line.tool_name,
                               Payload("(streaming - args in separate message)", <<>>))>>,
                 TRUE, line.tool_name, FALSE)
    ELSE IF (pending \/ line.tools_call) /\ line.name # "" /\ line.name \notin MethodNames
    THEN Outcome(4, <<Activity("tool_call", line.name, Payload("(streaming)", <<>>))>>,
                 TRUE, line.name, FALSE)
    ELSE IF line.line_action # ""
    THEN Outcome(5, <<Activity("tool_call", line.line_action,
                               Payload("Action format (args not extracted)", <<>>))>>,
                 TRUE, line.line_action, FALSE)
    ELSE IF line.verb_args # ""
    THEN Outcome(6, <<Activity("tool_call", line.verb_args, Payload("tool_args", line.args))>>,
                 TRUE, line.verb_args, pending)
    ELSE IF line.verb # "" /\ Lower(line.verb) \notin BlockList
    THEN Outcome(7, <<Activity("tool_call", line.verb,
                               IF line.remaining # <<>>
                               THEN Payload("remaining", line.remaining)
                               ELSE Payload("No arguments provided", <<>>))>>,
                 FALSE, line.verb, pending)
    ELSE IF line.prefixes # {}
    THEN Outcome(8, <<Activity("thought", "", Content(line))>>,
                 TRUE, IF line.action # "" THEN line.action ELSE last, pending)
    ELSE IF line.results
    THEN IF line.output # <<>>
         THEN Outcome(9, <<Activity("tool_result",
                                    IF last # "" THEN last ELSE infer_tool_from_output(line.output),
                                    Payload("content_to_show", line.output))>>,
                      TRUE, last, pending)
         ELSE Outcome(9, <<>>, FALSE, last, pending)
    ELSE Outcome(10, <<>>, FALSE, last, pending)

\* emit with a simple-verb branch that does not record its tool
Classify_verb_unrecorded(line, last, pending) ==
    IF line.sensitive THEN Outcome(1, <<>>, FALSE, last, pending)
    ELSE IF line.requesting THEN Outcome(2, <<>>, FALSE, last, TRUE)
    ELSE IF line.tool_name # ""
    THEN Outcome(3, <<Activity("tool_call", line.tool_name,
                               Payload("(streaming - args in separate message)", <<>>))>>,
                 TRUE, line.tool_name, FALSE)
    ELSE IF (pending \/ line.tools_call) /\ line.name # "" /\ line.name \notin MethodNames
    THEN Outcome(4, <<Activity("tool_call", line.name, Payload("(streaming)", <<>>))>>,
                 TRUE, line.name, FALSE)
    ELSE IF line.line_action # ""
    THEN Outcome(5, <<Activity("tool_call", line.line_action,
                               Payload("Action format (args not extracted)", <<>>))>>,
                 TRUE, line.line_action, pending)
    ELSE IF line.verb_args # ""
    THEN Outcome(6, <<Activity("tool_call", line.verb_args, Payload("tool_args", line.args))>>,
                 TRUE, line.verb_args, pending)
    ELSE IF line.verb # "" /\ Lower(line.verb) \notin BlockList
    THEN Outcome(7, <<Activity("tool_call", line.verb,
                               IF line.remaining # <<>>
                               THEN Payload("remaining", line.remaining)
                               ELSE Payload("No arguments provided", <<>>))>>,
                 FALSE, last, pending)
    ELSE IF line.prefixes # {}
    THEN Outcome(8, <<Activity("thought", "", Content(line))>>,
                 TRUE, IF line.action # "" THEN line.action ELSE last, pending)
    ELSE IF line.results
    THEN IF line.output # <<>>
         THEN Outcome(9, <<Activity("tool_result",
                                    IF last # "" THEN last ELSE infer_tool_from_output(line.output),
                                    Payload("content_to_show", line.output))>>,
                      TRUE, last, pending)
         ELSE Outcome(9, <<>>, FALSE, last, pending)
    ELSE Outcome(10, <<>>, FALSE, last, pending)

\* emit with a result that uses up the tool it is attributed to
Classify_result_consumes(line, last, pending) ==
    IF line.sensitive THEN Outcome(1, <<>>, FALSE, last, pending)
    ELSE IF line.requesting THEN Outcome(2, <<>>, FALSE, last, TRUE)
    ELSE IF line.tool_name # ""
    THEN Outcome(3, <<Activity("tool_call", line.tool_name,
                               Payload("(streaming - args in separate message)", <<>>))>>,
                 TRUE, line.tool_name, FALSE)
    ELSE IF (pending \/ line.tools_call) /\ line.name # "" /\ line.name \notin MethodNames
    THEN Outcome(4, <<Activity("tool_call", line.name, Payload("(streaming)", <<>>))>>,
                 TRUE, line.name, FALSE)
    ELSE IF line.line_action # ""
    THEN Outcome(5, <<Activity("tool_call", line.line_action,
                               Payload("Action format (args not extracted)", <<>>))>>,
                 TRUE, line.line_action, pending)
    ELSE IF line.verb_args # ""
    THEN Outcome(6, <<Activity("tool_call", line.verb_args, Payload("tool_args", line.args))>>,
                 TRUE, line.verb_args, pending)
    ELSE IF line.verb # "" /\ Lower(line.verb) \notin BlockList
    THEN Outcome(7, <<Activity("tool_call", line.verb,
                               IF line.remaining # <<>>
                               THEN Payload("remaining", line.remaining)
                               ELSE Payload("No arguments provided", <<>>))>>,
                 FALSE, line.verb, pending)
    ELSE IF line.prefixes # {}
    THEN Outcome(8, <<Activity("thought", "", Content(line))>>,
                 TRUE, IF line.action # "" THEN line.action ELSE last, pending)
    ELSE IF line.results
    THEN IF line.output # <<>>
         THEN Outcome(9, <<Activity("tool_result",
                                    IF last # "" THEN last ELSE infer_tool_from_output(line.output),
                                    Payload("content_to_show", line.output))>>,
                      TRUE, "", pending)
         ELSE Outcome(9, <<>>, FALSE, last, pending)
    ELSE Outcome(10, <<>>, FALSE, last, pending)

\* ToolCallHandler.emit as a function of the record and of the two class
\* attributes
Classify(line, last, pending) ==
    IF line.sensitive THEN Outcome(1, <<>>, FALSE, last, pending)
    ELSE IF line.requesting THEN Outcome(2, <<>>, FALSE, last, TRUE)
    ELSE IF line.tool_name # ""
    THEN Outcome(3, <<Activity("tool_call", line.tool_name,
                               Payload("(streaming - args in separate message)", <<>>))>>,
                 TRUE, line.tool_name, FALSE)
    ELSE IF (pending \/ line.tools_call) /\ line.name # "" /\ line.name \notin MethodNames
    THEN Outcome(4, <<Activity("tool_call", line.name, Payload("(streaming)", <<>>))>>,
                 TRUE, line.name, FALSE)
    ELSE IF line.line_action # ""
    THEN Outcome(5, <<Activity("tool_call", line.line_action,
                               Payload("Action format (args not extracted)", <<>>))>>,
                 TRUE, line.line_action, pending)
    ELSE IF line.verb_args # ""
    THEN Outcome(6, <<Activity("tool_call", line.verb_args, Payload("tool_args", line.args))>>,
                 TRUE, line.verb_args, pending)
    ELSE IF line.verb # "" /\ Lower(line.verb) \notin BlockList
    THEN Outcome(7, <<Activity("tool_call", line.verb,
                               IF line.remaining # <<>>
                               THEN Payload("remaining", line.remaining)
                               ELSE Payload("No arguments provided", <<>>))>>,
                 FALSE, line.verb, pending)
    ELSE IF line.prefixes # {}
    THEN Outcome(8, <<Activity("thought", "", Content(line))>>,
                 TRUE, IF line.action # "" THEN line.action ELSE last, pending)
    ELSE IF line.results
    THEN IF line.output # <<>>
         THEN Outcome(9, <<Activity("tool_result",
                                    IF last # "" THEN last ELSE infer_tool_from_output(line.output),
                                    Payload("content_to_show", line.output))>>,
                      TRUE, last, pending)
         ELSE Outcome(9, <<>>, FALSE, last, pending)
    ELSE Outcome(10, <<>>, FALSE, last, pending)

\* The log records handled
MaxLines == 3

NoEmit == [line |-> Plain, pending |-> FALSE, last |-> "", rule |-> 0, ok |-> TRUE]

\* ToolCallHandler.emit(record); project_dir is set before the handler is
\* installed (line 756).  ok: the write of .activities.json succeeds, which it
\* cannot when the project directory is gone.
emit(line, ok) ==
    /\ lines < MaxLines
    /\ LET c == Classify(line, last_tool_called, pending_tool_call)
           w == IF c.stored
                THEN write_activity_to_file(activitiesFile, c.events[1], projectExists /\ ok)
                ELSE Returned(activitiesFile, "")
       IN  /\ ~c.stored => ok
           /\ last_tool_called' = c.last_tool_called
           /\ pending_tool_call' = c.pending_tool_call
           /\ stdout' = stdout \o c.events
           /\ handed' = IF c.stored THEN handed \o c.events ELSE handed
           /\ activitiesFile' = w.file
           /\ stderr' = IF w.raised THEN "--- Logging error ---" ELSE w.stderr
           /\ lastEmit' = [line |-> line, pending |-> pending_tool_call,
                           last |-> last_tool_called, rule |-> c.rule, ok |-> ok]
           /\ lines' = lines + 1
    /\ UNCHANGED <<fsVars, progVars, messagesFile, loopVars, histVars, toolVars>>

\* The handler before its first record
IdleHandler ==
    /\ last_tool_called = "" /\ pending_tool_call = FALSE
    /\ stdout = <<>> /\ stderr = "" /\ handed = <<>> /\ lines = 0 /\ lastEmit = NoEmit

(***************************************************************************)
(* Other writers to the project directory                                  *)
(***************************************************************************)

\* The ticks of the clock
MaxTime == 3

\* write_file of the filesystem server, or any other process creating or
\* replacing a file
WriteFile(path, file) ==
    /\ projectExists
    /\ fs[path] # file
    /\ fs' = [fs EXCEPT ![path] = file]
    /\ UNCHANGED <<projectExists, kill, killedAt, now, progVars, messagesFile, loopVars, histVars>>
    /\ UNCHANGED <<logVars, toolVars>>

DeleteFile(path) ==
    /\ projectExists
    /\ fs[path].exists
    /\ fs' = [fs EXCEPT ![path] = NoFile]
    /\ UNCHANGED <<projectExists, kill, killedAt, now, progVars, messagesFile, loopVars, histVars>>
    /\ UNCHANGED <<logVars, toolVars>>

\* The tool update_research_progress of the filesystem server
update_research_progress(percentage, current_task, task_description) ==
    /\ projectExists
    /\ progress' = ServerRecord(fs, percentage, current_task, task_description)
    /\ progressFile' = ServerFile(percentage, current_task)
    /\ lastWrite' = WriteInfo("server", fs, percentage, current_task, task_description)
    /\ UNCHANGED <<fsVars, messagesFile, loopVars, histVars>>
    /\ UNCHANGED <<logVars, toolVars>>

\* update_progress of the agent, called outside message_loop by an agent
\* session working on the same project
update_progress(percentage, current_task, completed_tasks) ==
    /\ projectExists
    /\ progress' = AgentRecord(fs, percentage, current_task)
    /\ progressFile' = AgentFile(completed_tasks)
    /\ lastWrite' = WriteInfo("agent", fs, percentage, current_task, "")
    /\ UNCHANGED <<fsVars, messagesFile, loopVars, histVars>>
    /\ UNCHANGED <<logVars, toolVars>>

\* Time passes
Tick ==
    /\ now < MaxTime
    /\ now' = now + 1
    /\ UNCHANGED <<projectExists, fs, kill, killedAt, progVars, messagesFile, loopVars, histVars>>
    /\ UNCHANGED <<logVars, toolVars>>

\* .research-progress.json is unparsable (a writer is half-way through it, or
\* it was edited by hand)
CorruptProgress ==
    /\ progress.written /\ ~progressFile.malformed
    /\ progressFile' = [progressFile EXCEPT !.malformed = TRUE]
    /\ UNCHANGED <<fsVars, progress, lastWrite, messagesFile, loopVars, histVars>>
    /\ UNCHANGED <<logVars, toolVars>>

(***************************************************************************)
(* The path-taking tools of the filesystem server                          *)
(***************************************************************************)

\* A path as a caller writes it: absolute or not, and its components
Path(absolute, parts) == [absolute |-> absolute, parts |-> parts]

\* The directory tree the tools work on, by real (resolved) location
Research == <<"research">>
Extra    == <<"extra">>
Nodes == {<<>>, Research, Research \o <<"report.html">>, Research \o <<"sub">>,
          Research \o <<"sub", "report.html">>, Extra, Extra \o <<"report.html">>,
          Extra \o <<"sub">>,
          <<"etc">>, <<"etc", "passwd">>, <<"tmp">>, <<"tmp", "report.html">>}

\* Symbolic links: one inside an allowed directory that leads out of it, one
\* outside that leads into it
SymlinkOut == Research \o <<"out">>
SymlinkIn  == <<"tmp", "in">>
Symlinks == [l \in {SymlinkOut, SymlinkIn} |-> IF l = SymlinkOut THEN <<"etc">> ELSE Research]

\* The working directory of the server process
Cwd == <<"tmp">>

Absent == [kind |-> "absent", content |-> ""]
Dir    == [kind |-> "dir", content |-> ""]
Text(content) == [kind |-> "file", content |-> content]

Contents == {"a", "b"}

\* Path.parents of a resolved path
Parents(p) == {SubSeq(p, 1, n) : n \in 0..(Len(p) - 1)}

\* Path.resolve(): the components are walked from the root, ".." steps back
\* from the place reached, a symbolic link is replaced by its target
RECURSIVE Walk(_, _)
Walk(done, rest) ==
    IF rest = <<>> THEN done
    ELSE IF Head(rest) = ".."
    THEN Walk(IF done = <<>> THEN <<>> ELSE SubSeq(done, 1, Len(done) - 1), Tail(rest))
    ELSE LET next == Append(done, Head(rest))
         IN  IF next \in DOMAIN Symlinks THEN Walk(Symlinks[next], Tail(rest))
             ELSE Walk(next, Tail(rest))

resolve(path) == Walk(<<>>, IF path.absolute THEN path.parts ELSE Cwd \o path.parts)

\* is_path_allowed with no call of resolve: the components are compared as
\* they were written
is_path_allowed_unresolved(path) ==
    LET joined == IF ~path.absolute /\ ALLOWED_BASE_DIRS # <<>>
                  THEN Path(TRUE, ALLOWED_BASE_DIRS[1] \o path.parts)
                  ELSE path
    IN  [is_allowed |-> \E i \in 1..Len(ALLOWED_BASE_DIRS) :
                            \/ joined.parts = ALLOWED_BASE_DIRS[i]
                            \/ ALLOWED_BASE_DIRS[i] \in Parents(joined.parts),
         path |-> resolve(joined)]

\* is_path_allowed(path): (is_allowed, resolved_path)
is_path_allowed(path) ==
    LET joined == IF ~path.absolute /\ ALLOWED_BASE_DIRS # <<>>
                  THEN Path(TRUE, ALLOWED_BASE_DIRS[1] \o path.parts)
                  ELSE path
        resolved_path == resolve(joined)
    IN  [is_allowed |-> \E i \in 1..Len(ALLOWED_BASE_DIRS) :
                            \/ resolved_path = ALLOWED_BASE_DIRS[i]
                            \/ ALLOWED_BASE_DIRS[i] \in Parents(resolved_path),
         path |-> resolved_path]

\* The outcome of one tool call: the exception raised ("" when it returned)
\* and what it returned
NoResult == [tool |-> "", path |-> Path(TRUE, <<>>), raised |-> "", value |-> {}]
Result(tool, path, raised, value) ==
    [tool |-> tool, path |-> path, raised |-> raised, value |-> value]

\* An ancestor of the path that is a file, so that mkdir(parents=True) raises
FileAbove(p) == \E q \in Parents(p) : disk[q].kind = "file"

\* mkdir(parents=True, exist_ok=True) of p on d
mkdir(d, p) == [q \in Nodes |-> IF q \in Parents(p) \cup {p} /\ d[q].kind = "absent" THEN Dir ELSE d[q]]

\* The names in a directory
Children(p) == {q[Len(q)] : q \in {n \in Nodes : Len(n) = Len(p) + 1 /\ SubSeq(n, 1, Len(p)) = p
                                                 /\ disk[n].kind # "absent"}}

Returns(tool, path, raised, value) ==
    /\ result' = Result(tool, path, raised, value)
    /\ UNCHANGED <<ALLOWED_BASE_DIRS, disk>>

OutsideAllowed == "ValueError"

read_file(path) ==
    /\ LET a == is_path_allowed(path)
       IN  IF ~a.is_allowed THEN Returns("read_file", path, OutsideAllowed, {})
           ELSE IF disk[a.path].kind = "absent"
           THEN Returns("read_file", path, "FileNotFoundError", {})
           ELSE IF disk[a.path].kind # "file"
           THEN Returns("read_file", path, "ValueError: not a file", {})
           ELSE Returns("read_file", path, "", {disk[a.path].content})
    /\ UNCHANGED <<fsVars, progVars, messagesFile, loopVars, histVars, logVars>>

write_file(path, content) ==
    /\ LET a == is_path_allowed(path)
       IN  IF ~a.is_allowed THEN Returns("write_file", path, OutsideAllowed, {})
           ELSE IF FileAbove(a.path)
           THEN Returns("write_file", path, "FileExistsError", {})
           ELSE IF disk[a.path].kind = "dir"
           THEN Returns("write_file", path, "IsADirectoryError", {})
           ELSE /\ disk' = [mkdir(disk, a.path) EXCEPT ![a.path] = Text(content)]
                /\ result' = Result("write_file", path, "", {"Successfully wrote"})
                /\ UNCHANGED ALLOWED_BASE_DIRS
    /\ UNCHANGED <<fsVars, progVars, messagesFile, loopVars, histVars, logVars>>

list_directory(path) ==
    /\ LET a == is_path_allowed(path)
       IN  IF ~a.is_allowed THEN Returns("list_directory", path, OutsideAllowed, {})
           ELSE IF disk[a.path].kind = "absent"
           THEN Returns("list_directory", path, "FileNotFoundError", {})
           ELSE IF disk[a.path].kind # "dir"
           THEN Returns("list_directory", path, "NotADirectoryError", {})
           ELSE Returns("list_directory", path, "", Children(a.path))
    /\ UNCHANGED <<fsVars, progVars, messagesFile, loopVars, histVars, logVars>>

create_directory(path) ==
    /\ LET a == is_path_allowed(path)
       IN  IF ~a.is_allowed THEN Returns("create_directory", path, OutsideAllowed, {})
           ELSE IF disk[a.path].kind = "file" \/ FileAbove(a.path)
           THEN Returns("create_directory", path, "FileExistsError", {})
           ELSE /\ disk' = mkdir(disk, a.path)
                /\ result' = Result("create_directory", path, "", {"Successfully created directory"})
                /\ UNCHANGED ALLOWED_BASE_DIRS
    /\ UNCHANGED <<fsVars, progVars, messagesFile, loopVars, histVars, logVars>>

file_exists(path) ==
    /\ LET a == is_path_allowed(path)
       IN  IF ~a.is_allowed THEN Returns("file_exists", path, OutsideAllowed, {})
           ELSE Returns("file_exists", path, "",
                        {IF disk[a.path].kind # "absent" THEN "True" ELSE "False"})
    /\ UNCHANGED <<fsVars, progVars, messagesFile, loopVars, histVars, logVars>>

get_file_info(path) ==
    /\ LET a == is_path_allowed(path)
       IN  IF ~a.is_allowed THEN Returns("get_file_info", path, OutsideAllowed, {})
           ELSE IF disk[a.path].kind = "absent"
           THEN Returns("get_file_info", path, "FileNotFoundError", {})
           ELSE Returns("get_file_info", path, "",
                        {IF disk[a.path].kind = "dir" THEN "directory" ELSE "file"})
    /\ UNCHANGED <<fsVars, progVars, messagesFile, loopVars, histVars, logVars>>

\* The tree before any tool call: the directories, and /etc/passwd
StartDisk ==
    [q \in Nodes |-> IF q \in {<<>>, Research, Extra, <<"etc">>, <<"tmp">>} THEN Dir
                     ELSE IF q = <<"etc", "passwd">> THEN Text("a")
                     ELSE Absent]

\* The server with no directory configured and no call made
IdleTools ==
    /\ ALLOWED_BASE_DIRS = <<>>
    /\ disk = StartDisk
    /\ result = NoResult

(***************************************************************************)
(* Specification of the progress store over a changing project directory   *)
(***************************************************************************)

NoQueue == [exists |-> FALSE, malformed |-> FALSE, list |-> <<>>]

IdleLoop ==
    /\ pc = "idle" /\ phase = 0 /\ messages = <<>> /\ idx = 0
    /\ last_message_id = 0 /\ consecutive_errors = 0 /\ response = ""
    /\ trace = <<>> /\ calls = <<>> /\ marked = {} /\ callsAfterMarked = <<>>
    /\ dropped = {}
    /\ appended = FALSE /\ session = NoSession

InitGate ==
    /\ projectExists = TRUE
    /\ kill = FALSE
    /\ killedAt = NoKill
    /\ IdleTools
    /\ fs \in {f \in [Paths -> UNION {GateFiles(p) : p \in Paths} \cup {NoFile}] :
                 \A p \in Paths : f[p] \in GateFiles(p) \cup {NoFile}}
    /\ now = 1
    /\ activitiesFile = NoActivities
    /\ IdleHandler
    /\ progress = NoRecord
    /\ progressFile = NoProgressFile
    /\ lastWrite = NoWrite
    /\ messagesFile = NoQueue
    /\ IdleLoop

NextGate ==
    \/ \E path \in Paths : \E file \in GateFiles(path) : WriteFile(path, file)
    \/ \E path \in Paths : DeleteFile(path)
    \/ \E p \in Percentages, t \in GateTasks, d \in TaskDescriptions :
          update_research_progress(p, t, d)
    \/ \E p \in Percentages, t \in GateTasks : update_progress(p, t, <<>>)

SpecGate == InitGate /\ [][NextGate]_vars

(***************************************************************************)
(* message_loop                                                            *)
(***************************************************************************)

\* Most messages the queue holds in the model; ids are 1..MaxMsgs
MaxMsgs == 2

MsgIds == 1..MaxMsgs

\* last_message_id = None
None == 0

max_consecutive_errors == 5

Responses == {"answer"}

Msg(id, processed) ==
    [id |-> id, processed |-> processed,
     response |-> IF processed THEN "earlier answer" ELSE "",
     processed_at |-> processed]

Queue(list) == [exists |-> TRUE, malformed |-> FALSE, list |-> list]

\* The ids of the messages of .messages.json
QueueIds == {messagesFile.list[i].id : i \in 1..Len(messagesFile.list)}

\* Entries of the history variable trace
Event(type, n)  == [op |-> type, n |-> n]
LoadQueue       == [op |-> "json.loads", n |-> 0]
LlmTurn(id)     == [op |-> "llm.generate_str", n |-> id]
ProgressWrite(p) == [op |-> "update_progress", n |-> p]
QueueWrite      == [op |-> "messages_file.write_text", n |-> 0]
Sleep(n)        == [op |-> "asyncio.sleep", n |-> n]

IgnoresProcessed(msg, last) == msg.id # last

IgnoresLastSeen(msg, last) == ~msg.processed

\* A test that lets the last-seen message through after an iteration raised
RetriesAfterError(msg, last) == ~msg.processed /\ (msg.id # last \/ consecutive_errors > 0)

\* "if msg.get("id") != last_message_id and not msg.get("processed")"
ShouldProcess(msg, last) == msg.id # last /\ ~msg.processed

ShouldExit_above(n) == n > max_consecutive_errors

\* "if consecutive_errors >= max_consecutive_errors"
ShouldExit(n) == n >= max_consecutive_errors

\* The first position at or after i of a message the for loop does not skip,
\* Len + 1 when there is none
RECURSIVE NextIdx(_, _, _)
NextIdx(list, i, last) ==
    IF i > Len(list) \/ ShouldProcess(list[i], last) THEN i
    ELSE NextIdx(list, i + 1, last)

\* An except branch that always retries
Raise_always_retries(tr) ==
    LET n == consecutive_errors + 1
    IN  /\ consecutive_errors' = n
        /\ pc' = "poll"
        /\ trace' = tr \o <<Event("message_loop_error", n), Sleep(5)>>

\* The except branch, entered after the iteration has done tr
Raise(tr) ==
    LET n == consecutive_errors + 1
    IN  /\ consecutive_errors' = n
        /\ IF ShouldExit(n)
           THEN /\ pc' = "done"
                /\ trace' = tr \o <<Event("message_loop_error", n), Event("log", n)>>
           ELSE /\ pc' = "poll"
                /\ trace' = tr \o <<Event("message_loop_error", n), Sleep(5)>>

\* An iteration that ends without resetting the counter
EndOfPass_keeps_count(tr) ==
    /\ trace' = tr \o <<Sleep(2)>>
    /\ UNCHANGED consecutive_errors
    /\ pc' = "poll"

\* The end of an iteration that did not raise
EndOfPass(tr) ==
    /\ trace' = tr \o <<Sleep(2)>>
    /\ consecutive_errors' = 0
    /\ pc' = "poll"

Poll_ignores_kill ==
    /\ pc = "poll"
    /\ UNCHANGED <<fsVars, progVars, messagesFile, phase, last_message_id, response,
                   calls, marked, callsAfterMarked, appended, dropped, session>>
    /\ IF ~projectExists
       THEN /\ pc' = "done" /\ trace' = <<Event("log", 0)>>
            /\ UNCHANGED <<messages, idx, consecutive_errors>>
       ELSE IF ~messagesFile.exists
       THEN /\ EndOfPass(<<>>)
            /\ UNCHANGED <<messages, idx>>
       ELSE IF messagesFile.malformed
       THEN /\ Raise(<<LoadQueue>>)
            /\ UNCHANGED <<messages, idx>>
       ELSE /\ messages' = messagesFile.list
            /\ idx' = 1
            /\ pc' = "scan"
            /\ trace' = <<LoadQueue>>
            /\ UNCHANGED consecutive_errors
    /\ UNCHANGED <<logVars, toolVars>>

\* A loop that removes the sentinel at the top of an iteration
Poll_removes_kill ==
    /\ pc = "poll"
    /\ UNCHANGED <<projectExists, fs, killedAt, now, progVars, messagesFile, phase,
                   last_message_id, response,
                   calls, marked, callsAfterMarked, appended, dropped, session>>
    /\ kill' = IF projectExists THEN FALSE ELSE kill
    /\ IF ~projectExists
       THEN /\ pc' = "done" /\ trace' = <<Event("log", 0)>>
            /\ UNCHANGED <<messages, idx, consecutive_errors>>
       ELSE IF kill
       THEN /\ pc' = "done" /\ trace' = <<Event("log", 0)>>
            /\ UNCHANGED <<messages, idx, consecutive_errors>>
       ELSE IF ~messagesFile.exists
       THEN /\ EndOfPass(<<>>)
            /\ UNCHANGED <<messages, idx>>
       ELSE IF messagesFile.malformed
       THEN /\ Raise(<<LoadQueue>>)
            /\ UNCHANGED <<messages, idx>>
       ELSE /\ messages' = messagesFile.list
            /\ idx' = 1
            /\ pc' = "scan"
            /\ trace' = <<LoadQueue>>
            /\ UNCHANGED consecutive_errors
    /\ UNCHANGED <<logVars, toolVars>>

\* The top of "while True": the termination checks, then the queue is loaded
Poll ==
    /\ pc = "poll"
    /\ UNCHANGED <<fsVars, progVars, messagesFile, phase, last_message_id, response,
                   calls, marked, callsAfterMarked, appended, dropped, session>>
    /\ IF ~projectExists
       THEN /\ pc' = "done" /\ trace' = <<Event("log", 0)>>
            /\ UNCHANGED <<messages, idx, consecutive_errors>>
       ELSE IF kill
       THEN /\ pc' = "done" /\ trace' = <<Event("log", 0)>>
            /\ UNCHANGED <<messages, idx, consecutive_errors>>
       ELSE IF ~messagesFile.exists
       THEN /\ EndOfPass(<<>>)
            /\ UNCHANGED <<messages, idx>>
       ELSE IF messagesFile.malformed
       THEN /\ Raise(<<LoadQueue>>)
            /\ UNCHANGED <<messages, idx>>
       ELSE /\ messages' = messagesFile.list
            /\ idx' = 1
            /\ pc' = "scan"
            /\ trace' = <<LoadQueue>>
            /\ UNCHANGED consecutive_errors
    /\ UNCHANGED <<logVars, toolVars>>

\* "for msg in messages" up to the next message that is not skipped; for that
\* message everything before the llm turn: last_message_id, the
\* user_message_received event, the writes of 10 and 30, llm_starting
Scan ==
    /\ pc = "scan"
    /\ UNCHANGED <<fsVars, messagesFile, phase, messages, response,
                   calls, marked, callsAfterMarked, appended, dropped>>
    /\ LET i == NextIdx(messages, idx, last_message_id)
       IN  IF i > Len(messages)
           THEN /\ EndOfPass(trace)
                /\ idx' = i
                /\ UNCHANGED <<last_message_id, progVars, session>>
           ELSE /\ idx' = i
                /\ last_message_id' = messages[i].id
                /\ IF projectExists
                   THEN /\ progress' = AgentRecord(fs, 30, "Researching follow-up")
                        /\ progressFile' = AgentFile(<<>>)
                        /\ lastWrite' = WriteInfo("agent", fs, 30, "Researching follow-up", "")
                        /\ session' = SessionWrite(
                               SessionWrite(session, 10, "Processing follow-up request",
                                            AgentRecord(fs, 10, "Processing follow-up request")),
                               30, "Researching follow-up",
                               AgentRecord(fs, 30, "Researching follow-up"))
                        /\ trace' = trace \o <<Event("user_message_received", messages[i].id),
                                               ProgressWrite(10), Event("llm_starting", 0),
                                               ProgressWrite(30)>>
                        /\ pc' = "llm"
                        /\ UNCHANGED consecutive_errors
                   ELSE \* progress_file.write_text raises FileNotFoundError
                        /\ Raise(trace \o <<Event("user_message_received", messages[i].id),
                                            ProgressWrite(10)>>)
                        /\ UNCHANGED <<progVars, session>>
    /\ UNCHANGED <<logVars, toolVars>>

\* An llm turn that the sentinel interrupts
Llm_interrupted(ok) ==
    /\ pc = "llm"
    /\ LET id == messages[idx].id
       IN  /\ calls' = [calls EXCEPT ![id] = @ + 1]
           /\ callsAfterMarked' = [callsAfterMarked EXCEPT ![id] = IF id \in marked THEN @ + 1 ELSE @]
           /\ IF kill
              THEN /\ pc' = "done" /\ trace' = <<Event("log", 0)>>
                   /\ UNCHANGED <<consecutive_errors, response>>
              ELSE IF ok
              THEN /\ \E r \in Responses : response' = r
                   /\ trace' = trace \o <<LlmTurn(id)>>
                   /\ pc' = "p90"
                   /\ UNCHANGED consecutive_errors
              ELSE /\ Raise(trace \o <<LlmTurn(id)>>)
                   /\ UNCHANGED response
    /\ UNCHANGED <<fsVars, progVars, messagesFile, phase, messages, idx, last_message_id,
                   marked, appended, dropped, session>>
    /\ UNCHANGED <<logVars, toolVars>>

\* await llm.generate_str(...): returns a text or raises
\* An llm turn whose exception is swallowed: the loop goes on with no response
Llm_swallows_error(ok) ==
    /\ pc = "llm"
    /\ LET id == messages[idx].id
       IN  /\ calls' = [calls EXCEPT ![id] = @ + 1]
           /\ callsAfterMarked' = [callsAfterMarked EXCEPT ![id] = IF id \in marked THEN @ + 1 ELSE @]
           /\ IF ok
              THEN /\ \E r \in Responses : response' = r
                   /\ trace' = trace \o <<LlmTurn(id)>>
                   /\ pc' = "p90"
                   /\ UNCHANGED consecutive_errors
              ELSE /\ response' = ""
                   /\ trace' = trace \o <<LlmTurn(id)>>
                   /\ pc' = "p90"
                   /\ UNCHANGED consecutive_errors
    /\ UNCHANGED <<fsVars, progVars, messagesFile, phase, messages, idx, last_message_id,
                   marked, appended, dropped, session>>
    /\ UNCHANGED <<logVars, toolVars>>

Llm(ok) ==
    /\ pc = "llm"
    /\ LET id == messages[idx].id
       IN  /\ calls' = [calls EXCEPT ![id] = @ + 1]
           /\ callsAfterMarked' = [callsAfterMarked EXCEPT ![id] = IF id \in marked THEN @ + 1 ELSE @]
           /\ IF ok
              THEN /\ \E r \in Responses : response' = r
                   /\ trace' = trace \o <<LlmTurn(id)>>
                   /\ pc' = "p90"
                   /\ UNCHANGED consecutive_errors
              ELSE /\ Raise(trace \o <<LlmTurn(id)>>)
                   /\ UNCHANGED response
    /\ UNCHANGED <<fsVars, progVars, messagesFile, phase, messages, idx, last_message_id,
                   marked, appended, dropped, session>>
    /\ UNCHANGED <<logVars, toolVars>>

\* The llm turn followed by the queue write, with no write of 90
Finalize_skips_90 ==
    /\ pc = "p90"
    /\ IF projectExists
       THEN /\ trace' = trace \o <<Event("llm_completed", 0)>>
            /\ pc' = "save"
            /\ UNCHANGED <<consecutive_errors, progVars, session>>
       ELSE /\ Raise(trace \o <<Event("llm_completed", 0), ProgressWrite(90)>>)
            /\ UNCHANGED <<progVars, session>>
    /\ UNCHANGED <<fsVars, messagesFile, phase, messages, idx, last_message_id, response,
                   calls, marked, callsAfterMarked, appended, dropped>>
    /\ UNCHANGED <<logVars, toolVars>>

\* A write of 90 that ends the processing of the message when it is blocked
Finalize_stops_when_blocked ==
    /\ pc = "p90"
    /\ IF projectExists
       THEN /\ progress' = AgentRecord(fs, 90, "Finalizing response")
            /\ progressFile' = AgentFile(<<>>)
            /\ lastWrite' = WriteInfo("agent", fs, 90, "Finalizing response", "")
            /\ session' = SessionWrite(session, 90, "Finalizing response",
                                       AgentRecord(fs, 90, "Finalizing response"))
            /\ trace' = trace \o <<Event("llm_completed", 0), ProgressWrite(90)>>
            /\ IF AgentRecord(fs, 90, "Finalizing response").currentTask = BlockedTask
               THEN pc' = "scan"
               ELSE pc' = "save"
            /\ UNCHANGED consecutive_errors
       ELSE /\ Raise(trace \o <<Event("llm_completed", 0), ProgressWrite(90)>>)
            /\ UNCHANGED <<progVars, session>>
    /\ UNCHANGED <<fsVars, messagesFile, phase, messages, idx, last_message_id, response,
                   calls, marked, callsAfterMarked, appended, dropped>>
    /\ UNCHANGED <<logVars, toolVars>>

\* llm_completed and the write of 90
Finalize ==
    /\ pc = "p90"
    /\ IF projectExists
       THEN /\ progress' = AgentRecord(fs, 90, "Finalizing response")
            /\ progressFile' = AgentFile(<<>>)
            /\ lastWrite' = WriteInfo("agent", fs, 90, "Finalizing response", "")
            /\ session' = SessionWrite(session, 90, "Finalizing response",
                                       AgentRecord(fs, 90, "Finalizing response"))
            /\ trace' = trace \o <<Event("llm_completed", 0), ProgressWrite(90)>>
            /\ pc' = "save"
            /\ UNCHANGED consecutive_errors
       ELSE /\ Raise(trace \o <<Event("llm_completed", 0), ProgressWrite(90)>>)
            /\ UNCHANGED <<progVars, session>>
    /\ UNCHANGED <<fsVars, messagesFile, phase, messages, idx, last_message_id, response,
                   calls, marked, callsAfterMarked, appended, dropped>>
    /\ UNCHANGED <<logVars, toolVars>>

\* The closing events emitted before .messages.json is written
Save_announces_first(written) ==
    /\ pc = "save"
    /\ LET id == messages[idx].id
           list == [messages EXCEPT ![idx] =
                       [@ EXCEPT !.processed = TRUE, !.response = response,
                                 !.processed_at = TRUE]]
       IN  /\ messages' = list
           /\ IF projectExists /\ written
              THEN /\ messagesFile' = Queue(list)
                   /\ marked' = marked \cup {id}
                   /\ dropped' = dropped \cup (QueueIds \ {list[i].id : i \in 1..Len(list)})
                   /\ progress' = AgentRecord(fs, 100, "Follow-up complete - Ready for messages")
                   /\ progressFile' = AgentFile(<<>>)
                   /\ lastWrite' = WriteInfo("agent", fs, 100, "Follow-up complete - Ready for messages", "")
                   /\ session' = SessionWrite(session, 100, "Follow-up complete - Ready for messages",
                          AgentRecord(fs, 100, "Follow-up complete - Ready for messages"))
                   /\ trace' = trace \o <<Event("message_processed", id),
                                          Event("assistant_response", id),
                                          QueueWrite, ProgressWrite(100),
                                          Event("research_fully_completed", 0)>>
                   /\ idx' = idx + 1
                   /\ pc' = "scan"
                   /\ UNCHANGED consecutive_errors
              ELSE /\ Raise(trace \o <<QueueWrite>>)
                   /\ UNCHANGED <<messagesFile, marked, dropped, progVars, idx, session>>
    /\ UNCHANGED <<fsVars, phase, last_message_id, response, calls, callsAfterMarked, appended>>
    /\ UNCHANGED <<logVars, toolVars>>

\* Every message of the loaded list marked with the response of this one
Save_stamps_all(written) ==
    /\ pc = "save"
    /\ LET id == messages[idx].id
           list == [i \in 1..Len(messages) |->
                       [messages[i] EXCEPT !.processed = TRUE, !.response = response,
                                           !.processed_at = TRUE]]
       IN  /\ messages' = list
           /\ IF projectExists /\ written
              THEN /\ messagesFile' = Queue(list)
                   /\ marked' = marked \cup {id}
                   /\ dropped' = dropped \cup (QueueIds \ {list[i].id : i \in 1..Len(list)})
                   /\ progress' = AgentRecord(fs, 100, "Follow-up complete - Ready for messages")
                   /\ progressFile' = AgentFile(<<>>)
                   /\ lastWrite' = WriteInfo("agent", fs, 100, "Follow-up complete - Ready for messages", "")
                   /\ session' = SessionWrite(session, 100, "Follow-up complete - Ready for messages",
                          AgentRecord(fs, 100, "Follow-up complete - Ready for messages"))
                   /\ trace' = trace \o <<QueueWrite, ProgressWrite(100),
                                          Event("message_processed", id),
                                          Event("assistant_response", id),
                                          Event("research_fully_completed", 0)>>
                   /\ idx' = idx + 1
                   /\ pc' = "scan"
                   /\ UNCHANGED consecutive_errors
              ELSE /\ Raise(trace \o <<QueueWrite>>)
                   /\ UNCHANGED <<messagesFile, marked, dropped, progVars, idx, session>>
    /\ UNCHANGED <<fsVars, phase, last_message_id, response, calls, callsAfterMarked, appended>>
    /\ UNCHANGED <<logVars, toolVars>>

\* A queue write that reads the file again and keeps the records added since the load
Save_merges_file(written) ==
    /\ pc = "save"
    /\ LET id == messages[idx].id
           list == [messages EXCEPT ![idx] =
                       [@ EXCEPT !.processed = TRUE, !.response = response,
                                 !.processed_at = TRUE]]
       IN  /\ messages' = list
           /\ IF projectExists /\ written
              THEN /\ messagesFile' = Queue(list \o SubSeq(messagesFile.list, Len(list) + 1,
                                                             Len(messagesFile.list)))
                   /\ marked' = marked \cup {id}
                   /\ UNCHANGED dropped
                   /\ progress' = AgentRecord(fs, 100, "Follow-up complete - Ready for messages")
                   /\ progressFile' = AgentFile(<<>>)
                   /\ lastWrite' = WriteInfo("agent", fs, 100, "Follow-up complete - Ready for messages", "")
                   /\ session' = SessionWrite(session, 100, "Follow-up complete - Ready for messages",
                          AgentRecord(fs, 100, "Follow-up complete - Ready for messages"))
                   /\ trace' = trace \o <<QueueWrite, ProgressWrite(100),
                                          Event("message_processed", id),
                                          Event("assistant_response", id),
                                          Event("research_fully_completed", 0)>>
                   /\ idx' = idx + 1
                   /\ pc' = "scan"
                   /\ UNCHANGED consecutive_errors
              ELSE /\ Raise(trace \o <<QueueWrite>>)
                   /\ UNCHANGED <<messagesFile, marked, dropped, progVars, idx, session>>
    /\ UNCHANGED <<fsVars, phase, last_message_id, response, calls, callsAfterMarked, appended>>
    /\ UNCHANGED <<logVars, toolVars>>

\* The message is marked processed in the loaded list, the list is written
\* to .messages.json (which can raise), 100 is written and the three closing
\* events are emitted
Save(written) ==
    /\ pc = "save"
    /\ LET id == messages[idx].id
           list == [messages EXCEPT ![idx] =
                       [@ EXCEPT !.processed = TRUE, !.response = response,
                                 !.processed_at = TRUE]]
       IN  /\ messages' = list
           /\ IF projectExists /\ written
              THEN /\ messagesFile' = Queue(list)
                   /\ marked' = marked \cup {id}
                   /\ dropped' = dropped \cup (QueueIds \ {list[i].id : i \in 1..Len(list)})
                   /\ progress' = AgentRecord(fs, 100, "Follow-up complete - Ready for messages")
                   /\ progressFile' = AgentFile(<<>>)
                   /\ lastWrite' = WriteInfo("agent", fs, 100, "Follow-up complete - Ready for messages", "")
                   /\ session' = SessionWrite(session, 100, "Follow-up complete - Ready for messages",
                          AgentRecord(fs, 100, "Follow-up complete - Ready for messages"))
                   /\ trace' = trace \o <<QueueWrite, ProgressWrite(100),
                                          Event("message_processed", id),
                                          Event("assistant_response", id),
                                          Event("research_fully_completed", 0)>>
                   /\ idx' = idx + 1
                   /\ pc' = "scan"
                   /\ UNCHANGED consecutive_errors
              ELSE /\ Raise(trace \o <<QueueWrite>>)
                   /\ UNCHANGED <<messagesFile, marked, dropped, progVars, idx, session>>
    /\ UNCHANGED <<fsVars, phase, last_message_id, response, calls, callsAfterMarked, appended>>
    /\ UNCHANGED <<logVars, toolVars>>

(***************************************************************************)
(* Other writers while the loop runs                                       *)
(***************************************************************************)

\* The portal appends a follow-up message with a fresh id
AppendMessage(id) ==
    /\ projectExists
    /\ ~messagesFile.malformed
    /\ id \notin QueueIds
    /\ messagesFile' = Queue(Append(messagesFile.list, Msg(id, FALSE)))
    /\ appended' = TRUE
    /\ UNCHANGED <<fsVars, progVars, loopVars, trace, calls, marked, callsAfterMarked, dropped, session>>
    /\ UNCHANGED <<logVars, toolVars>>

\* .messages.json is momentarily unparsable (a writer is half-way through it)
CorruptQueue ==
    /\ messagesFile.exists /\ ~messagesFile.malformed
    /\ messagesFile' = [messagesFile EXCEPT !.malformed = TRUE]
    /\ UNCHANGED <<fsVars, progVars, loopVars, histVars>>
    /\ UNCHANGED <<logVars, toolVars>>

RepairQueue ==
    /\ messagesFile.exists /\ messagesFile.malformed
    /\ messagesFile' = [messagesFile EXCEPT !.malformed = FALSE]
    /\ UNCHANGED <<fsVars, progVars, loopVars, histVars>>
    /\ UNCHANGED <<logVars, toolVars>>

\* The manager drops the .kill sentinel
TouchKill ==
    /\ projectExists /\ ~kill
    /\ kill' = TRUE
    /\ killedAt' = [pc |-> pc, id |-> IF pc \in {"llm", "p90", "save"} THEN messages[idx].id ELSE None]
    /\ UNCHANGED <<projectExists, fs, now, progVars, messagesFile, loopVars, histVars>>
    /\ UNCHANGED <<logVars, toolVars>>

\* The project directory is deleted with everything in it
DeleteProject ==
    /\ projectExists
    /\ projectExists' = FALSE
    /\ fs' = [p \in Paths |-> NoFile]
    /\ kill' = FALSE
    /\ killedAt' = NoKill
    /\ progress' = NoRecord
    /\ progressFile' = NoProgressFile
    /\ lastWrite' = NoWrite
    /\ messagesFile' = NoQueue
    /\ activitiesFile' = NoActivities
    /\ UNCHANGED <<now, loopVars, histVars, last_tool_called, pending_tool_call, stdout, stderr,
                   handed, lines, lastEmit, toolVars>>

(***************************************************************************)
(* Specification of message_loop                                           *)
(***************************************************************************)

\* Lists of at most n messages with distinct ids
RECURSIVE Lists(_)
Lists(n) ==
    IF n = 0 THEN {<<>>}
    ELSE LET shorter == Lists(n - 1)
         IN  shorter \cup
             {Append(l, Msg(id, pr)) : l \in {k \in shorter : Len(k) = n - 1},
                                       id \in MsgIds, pr \in BOOLEAN}

DistinctIds(l) == \A i, j \in 1..Len(l) : i # j => l[i].id # l[j].id

InitQueues == {NoQueue} \cup {Queue(l) : l \in {k \in Lists(MaxMsgs) : DistinctIds(k)}}

LoopFs(index, missing) ==
    [p \in Paths |-> IF p = IndexHtml THEN index
                     ELSE IF p = MissingHtml THEN missing ELSE NoFile]

InitLoop ==
    /\ projectExists = TRUE
    /\ kill = FALSE
    /\ killedAt = NoKill
    /\ IdleTools
    /\ fs \in {LoopFs(File(<<Href(<<"missing.html">>)>>, TRUE), m) : m \in {EmptyFile, NoFile}}
    /\ now = 1
    /\ activitiesFile = NoActivities
    /\ IdleHandler
    /\ progress = NoRecord
    /\ progressFile = NoProgressFile
    /\ lastWrite = NoWrite
    /\ messagesFile \in InitQueues
    /\ pc = "poll" /\ phase = 0 /\ messages = <<>> /\ idx = 0
    /\ last_message_id = None /\ consecutive_errors = 0 /\ response = ""
    /\ trace = <<Event("message_loop_started", 0)>>
    /\ calls = [i \in MsgIds |-> 0]
    /\ marked = {}
    /\ callsAfterMarked = [i \in MsgIds |-> 0]
    /\ dropped = {}
    /\ appended = FALSE
    /\ session = NoSession

LoopStep ==
    \/ Poll
    \/ Scan
    \/ \E ok \in BOOLEAN : Llm(ok)
    \/ Finalize
    \/ \E written \in BOOLEAN : Save(written)

NextLoop ==
    \/ LoopStep
    \/ \E id \in MsgIds : AppendMessage(id)
    \/ CorruptQueue
    \/ RepairQueue
    \/ TouchKill
    \/ DeleteProject

SpecLoop == InitLoop /\ [][NextLoop]_vars

(***************************************************************************)
(* Specification of message_loop started again on a project whose loop     *)
(* ended on the sentinel                                                   *)
(***************************************************************************)

\* message_loop is entered again: its locals are fresh and
\* message_loop_started is emitted. Only the restart after a termination on
\* .kill is taken, which keeps the counters of llm turns bounded.
StartLoop ==
    /\ pc = "done"
    /\ projectExists /\ kill
    /\ pc' = "poll"
    /\ messages' = <<>> /\ idx' = 0
    /\ last_message_id' = None
    /\ consecutive_errors' = 0
    /\ response' = ""
    /\ trace' = <<Event("message_loop_started", 0)>>
    /\ UNCHANGED <<fsVars, progVars, messagesFile, phase,
                   calls, marked, callsAfterMarked, appended, dropped, session>>
    /\ UNCHANGED <<logVars, toolVars>>

NextRestart ==
    \/ NextLoop
    \/ StartLoop

SpecRestart == InitLoop /\ [][NextRestart]_vars

(***************************************************************************)
(* Specification of one follow-up message processed while the documents    *)
(* of the project change and the filesystem server writes progress         *)
(***************************************************************************)

InitSession ==
    /\ projectExists = TRUE
    /\ kill = FALSE
    /\ killedAt = NoKill
    /\ IdleTools
    /\ fs \in {LoopFs(i, m) : i \in LoopFiles(IndexHtml), m \in LoopFiles(MissingHtml) \cup {NoFile}}
    /\ now = 1
    /\ activitiesFile = NoActivities
    /\ IdleHandler
    /\ progress = NoRecord
    /\ progressFile = NoProgressFile
    /\ lastWrite = NoWrite
    /\ messagesFile = Queue(<<Msg(1, FALSE)>>)
    /\ pc = "poll" /\ phase = 0 /\ messages = <<>> /\ idx = 0
    /\ last_message_id = None /\ consecutive_errors = 0 /\ response = ""
    /\ trace = <<Event("message_loop_started", 0)>>
    /\ calls = [i \in MsgIds |-> 0]
    /\ marked = {}
    /\ callsAfterMarked = [i \in MsgIds |-> 0]
    /\ dropped = {}
    /\ appended = FALSE
    /\ session = NoSession

NextSession ==
    \/ LoopStep
    \/ \E path \in {IndexHtml, MissingHtml} : \E file \in LoopFiles(path) : WriteFile(path, file)
    \/ DeleteFile(MissingHtml)
    \/ \E p \in {89, 100} : update_research_progress(p, "Complete", "Creating the report pages")
    \/ \E p \in {40, 90} : update_progress(p, "Finalizing", <<>>)

SpecSession == InitSession /\ [][NextSession]_vars

(***************************************************************************)
(* run_research: the phase updates that precede message_loop               *)
(***************************************************************************)

Update(percentage, current_task) == [percentage |-> percentage, current_task |-> current_task]

\* Phase updates with the research phase reported before the start of research
PhaseUpdates_out_of_order ==
    <<Update(0, "Initializing"),
      Update(10, "Connecting to MCP servers"),
      Update(20, "Initializing research agent"),
      Update(30, "Attaching LLM"),
      Update(80, "Creating markdown documentation"),
      Update(40, "Starting research"),
      Update(90, "Finalizing"),
      Update(100, "Complete")>>

\* The update_progress calls of a run that is not resumed, in program order
PhaseUpdates ==
    <<Update(0, "Initializing"),
      Update(10, "Connecting to MCP servers"),
      Update(20, "Initializing research agent"),
      Update(30, "Attaching LLM"),
      Update(40, "Starting research"),
      Update(80, "Creating markdown documentation"),
      Update(90, "Finalizing"),
      Update(100, "Complete")>>

\* The entries appended to completed_tasks, one before each update but the first
PhaseTasks ==
    <<"Created app configuration", "Connected to MCP servers", "Loaded research tools",
      "Connected to LLM", "Completed web research", "Completed research",
      "Generated all files">>

\* The local list completed_tasks after n phase updates
completed_tasks(n) == SubSeq(PhaseTasks, 1, IF n = 0 THEN 0 ELSE n - 1)

\* The updates after which the run is inside "try:" (line 870)
InsideTry == 2..(Len(PhaseUpdates) - 1)

\* The update after which "if resume:" is tested
ResumePoint == 5

\* One call of update_progress by the agent process itself
AgentWrite(percentage, current_task, tasks) ==
    /\ progress' = AgentRecord(fs, percentage, current_task)
    /\ progressFile' = AgentFile(tasks)
    /\ lastWrite' = WriteInfo("agent", fs, percentage, current_task, "")
    /\ session' = SessionWrite(session, percentage, current_task,
                               AgentRecord(fs, percentage, current_task))

\* await message_loop(...): its locals and the message_loop_started event
EnterLoop ==
    /\ pc' = "poll"
    /\ trace' = <<Event("message_loop_started", 0)>>

\* The next phase of run_research ends with its update_progress call; after
\* the last one message_loop is entered.  When the write raises, the handler's
\* own update_progress raises as well and the process ends.
RunPhase ==
    /\ pc = "research"
    /\ phase < Len(PhaseUpdates)
    /\ LET u == PhaseUpdates[phase + 1]
       IN  IF projectExists
           THEN /\ AgentWrite(u.percentage, u.current_task, completed_tasks(phase + 1))
                /\ phase' = phase + 1
                /\ IF phase + 1 = Len(PhaseUpdates)
                   THEN EnterLoop
                   ELSE UNCHANGED <<pc, trace>>
           ELSE /\ pc' = "done"
                /\ UNCHANGED <<progVars, session, phase, trace>>
    /\ UNCHANGED <<fsVars, messagesFile, messages, idx, last_message_id, consecutive_errors,
                   response, calls, marked, callsAfterMarked, appended, dropped>>
    /\ UNCHANGED <<logVars, toolVars>>

\* "if resume:": the conversation is restored, 100 is written and
\* message_loop is entered
Resume ==
    /\ pc = "research"
    /\ phase = ResumePoint
    /\ IF projectExists
       THEN /\ AgentWrite(100, "Resumed - Ready for messages", completed_tasks(phase))
            /\ EnterLoop
       ELSE /\ pc' = "done"
            /\ UNCHANGED <<progVars, session, trace>>
    /\ UNCHANGED <<fsVars, messagesFile, phase, messages, idx, last_message_id,
                   consecutive_errors, response, calls, marked, callsAfterMarked, appended, dropped>>
    /\ UNCHANGED <<logVars, toolVars>>

\* A phase raises inside "try:": the handler writes 100 / "Failed" and
\* run_research returns
Fail ==
    /\ pc = "research"
    /\ phase \in InsideTry
    /\ pc' = "done"
    /\ IF projectExists
       THEN AgentWrite(100, "Failed", completed_tasks(phase))
       ELSE UNCHANGED <<progVars, session>>
    /\ UNCHANGED <<fsVars, messagesFile, phase, messages, idx, last_message_id,
                   consecutive_errors, response, trace, calls, marked, callsAfterMarked,
                   appended, dropped>>
    /\ UNCHANGED <<logVars, toolVars>>

(***************************************************************************)
(* Specification of one agent process: the phases of run_research, then    *)
(* message_loop, while the documents of the project change                 *)
(***************************************************************************)

InitAgent ==
    /\ projectExists = TRUE
    /\ kill = FALSE
    /\ killedAt = NoKill
    /\ IdleTools
    /\ fs \in {LoopFs(File(<<Href(<<"missing.html">>)>>, TRUE), m) : m \in {EmptyFile, NoFile}}
    /\ now = 1
    /\ activitiesFile = NoActivities
    /\ IdleHandler
    /\ progress = NoRecord
    /\ progressFile = NoProgressFile
    /\ lastWrite = NoWrite
    /\ messagesFile \in InitQueues
    /\ pc = "research" /\ phase = 0 /\ messages = <<>> /\ idx = 0
    /\ last_message_id = None /\ consecutive_errors = 0 /\ response = ""
    /\ trace = <<>>
    /\ calls = [i \in MsgIds |-> 0]
    /\ marked = {}
    /\ callsAfterMarked = [i \in MsgIds |-> 0]
    /\ dropped = {}
    /\ appended = FALSE
    /\ session = NoSession

NextAgent ==
    \/ RunPhase
    \/ Resume
    \/ Fail
    \/ LoopStep
    \/ WriteFile(MissingHtml, EmptyFile)
    \/ DeleteFile(MissingHtml)
    \/ DeleteProject

SpecAgent == InitAgent /\ [][NextAgent]_vars

(***************************************************************************)
(* Specification of the log handler over a stream of log records           *)
(***************************************************************************)

\* Messages of log records, one or two for each branch of emit
Lines == {
    Plain,
    [Plain EXCEPT !.sensitive = TRUE, !.tool_name = "web_search"],
    [Plain EXCEPT !.requesting = TRUE, !.verb = "call"],
    [Plain EXCEPT !.requesting = TRUE, !.verb = "call", !.tool_name = "web_search"],
    [Plain EXCEPT !.tool_name = "write_file"],
    [Plain EXCEPT !.tool_name = "write_file", !.line_action = "web_search",
                  !.action = "web_search", !.prefixes = {"Action:"}],
    [Plain EXCEPT !.tools_call = TRUE, !.name = "crawl_url"],
    [Plain EXCEPT !.name = "crawl_url"],
    [Plain EXCEPT !.tools_call = TRUE, !.name = "call", !.prefixes = {"Plan:"}],
    [Plain EXCEPT !.line_action = "web_search", !.action = "web_search",
                  !.prefixes = {"Action:", "Thought:"}],
    [Plain EXCEPT !.verb_args = "write_file", !.args = <<"{", "path", "}">>,
                  !.verb = "write_file", !.remaining = <<"with", "args", "{", "path", "}">>],
    [Plain EXCEPT !.verb = "web_search"],
    [Plain EXCEPT !.verb = "To", !.results = TRUE, !.output = <<"Successfully wrote", "10">>],
    [Plain EXCEPT !.prefixes = {"Reasoning:", "Action:"}, !.action = "crawl_url"],
    [Plain EXCEPT !.results = TRUE, !.output = <<"https://", "example.com">>],
    [Plain EXCEPT !.results = TRUE, !.output = <<"done">>],
    [Plain EXCEPT !.results = TRUE] }

\* .activities.json left unparsable by an earlier process
MalformedActivities == [exists |-> TRUE, malformed |-> TRUE, list |-> <<>>]

InitClassifier ==
    /\ projectExists = TRUE
    /\ kill = FALSE
    /\ killedAt = NoKill
    /\ IdleTools
    /\ fs = [p \in Paths |-> NoFile]
    /\ now = 1
    /\ activitiesFile \in {NoActivities, MalformedActivities}
    /\ IdleHandler
    /\ progress = NoRecord
    /\ progressFile = NoProgressFile
    /\ lastWrite = NoWrite
    /\ messagesFile = NoQueue
    /\ IdleLoop

NextClassifier == \E line \in Lines : emit(line, TRUE)

SpecClassifier == InitClassifier /\ [][NextClassifier]_vars

(***************************************************************************)
(* Specification of the activity store next to its limit, with writes that *)
(* can fail                                                                *)
(***************************************************************************)

\* The k-th of n activities stored by earlier processes
PriorActivity(k, n) ==
    [type |-> "thought", tool |-> "", text |-> Payload("msg", <<>>), timestamp |-> 0,
     line |-> k - n, id |-> [ms |-> k - n, type |-> "thought"]]

Prior(n) == [k \in 1..n |-> PriorActivity(k, n)]

\* Records that produce one event of each type, and one that produces none
StoreLines == {
    Plain,
    [Plain EXCEPT !.tool_name = "write_file"],
    [Plain EXCEPT !.prefixes = {"Thought:"}],
    [Plain EXCEPT !.results = TRUE, !.output = <<"Progress updated:", "50%">>] }

InitActivities ==
    /\ projectExists = TRUE
    /\ kill = FALSE
    /\ killedAt = NoKill
    /\ IdleTools
    /\ fs = [p \in Paths |-> NoFile]
    /\ now = 1
    /\ activitiesFile \in {NoActivities, MalformedActivities,
                          Stored(Prior(ACTIVITY_MAX_COUNT - 1))}
    /\ IdleHandler
    /\ progress = NoRecord
    /\ progressFile = NoProgressFile
    /\ lastWrite = NoWrite
    /\ messagesFile = NoQueue
    /\ IdleLoop

NextActivities ==
    \/ \E line \in StoreLines, ok \in BOOLEAN : emit(line, ok)
    \/ Tick

SpecActivities == InitActivities /\ [][NextActivities]_vars

(***************************************************************************)
(* Specification of the progress file written by the server tool and by    *)
(* an agent process over time                                              *)
(***************************************************************************)

\* The lists an agent process passes as completed_tasks: message_loop's []
\* and run_research's list after its first phase
CallerLists == {<<>>, <<"Created app configuration">>}

\* The tasks a caller of the server tool names: current_task is a required
\* str parameter, and the empty string is one of its values
StoreTasks == Tasks \cup {""}

InitStore ==
    /\ projectExists = TRUE
    /\ kill = FALSE
    /\ killedAt = NoKill
    /\ IdleTools
    /\ fs \in {LoopFs(File(<<Href(<<"missing.html">>)>>, TRUE), m) : m \in {EmptyFile, NoFile}}
    /\ now = 1
    /\ activitiesFile = NoActivities
    /\ IdleHandler
    /\ progress = NoRecord
    /\ progressFile = NoProgressFile
    /\ lastWrite = NoWrite
    /\ messagesFile = NoQueue
    /\ IdleLoop

NextStore ==
    \/ Tick
    \/ CorruptProgress
    \/ \E p \in Percentages, t \in StoreTasks, d \in TaskDescriptions :
          update_research_progress(p, t, d)
    \/ \E p \in Percentages, t \in Tasks, l \in CallerLists : update_progress(p, t, l)

SpecStore == InitStore /\ [][NextStore]_vars

(***************************************************************************)
(* Specification of the path-taking tools of the filesystem server under   *)
(* the calls of one client                                                 *)
(***************************************************************************)

\* The paths a caller passes
ToolPaths == {
    Path(TRUE, Research),
    Path(TRUE, Research \o <<"report.html">>),
    Path(TRUE, Research \o <<"sub", "report.html">>),
    Path(TRUE, Research \o <<"..", "etc", "passwd">>),
    Path(TRUE, Research \o <<"sub", "..", "..", "tmp", "report.html">>),
    Path(TRUE, <<"etc", "passwd">>),
    Path(TRUE, Extra \o <<"report.html">>),
    Path(TRUE, SymlinkOut \o <<"passwd">>),
    Path(TRUE, SymlinkIn \o <<"report.html">>),
    Path(FALSE, <<"report.html">>),
    Path(FALSE, <<"sub">>),
    Path(FALSE, <<"..", "etc", "passwd">>),
    Path(FALSE, <<"sub", "..", "report.html">>) }

\* set_allowed_directories at start-up: none, one or two directories
InitTools ==
    /\ projectExists = TRUE
    /\ kill = FALSE
    /\ killedAt = NoKill
    /\ fs = [p \in Paths |-> NoFile]
    /\ now = 1
    /\ activitiesFile = NoActivities
    /\ IdleHandler
    /\ progress = NoRecord
    /\ progressFile = NoProgressFile
    /\ lastWrite = NoWrite
    /\ messagesFile = NoQueue
    /\ IdleLoop
    /\ ALLOWED_BASE_DIRS \in {<<>>, <<Research>>, <<Research, Extra>>, <<Extra, Research>>}
    /\ disk = StartDisk
    /\ result = NoResult

NextTools ==
    \E path \in ToolPaths :
        \/ read_file(path)
        \/ \E content \in Contents : write_file(path, content)
        \/ list_directory(path)
        \/ create_directory(path)
        \/ file_exists(path)
        \/ get_file_info(path)

SpecTools == InitTools /\ [][NextTools]_vars

(***************************************************************************)
(* Specification of message_loop with a collaborator that always fails:    *)
(* the loop is a single task that is always scheduled again after its      *)
(* sleep, hence weak fairness of its steps                                 *)
(***************************************************************************)

FailingStep ==
    \/ Poll
    \/ Scan
    \/ Llm(FALSE)

NextFailing ==
    \/ FailingStep
    \/ \E id \in MsgIds : AppendMessage(id)

SpecFailing == InitLoop /\ [][NextFailing]_vars /\ WF_vars(FailingStep)

(***************************************************************************)
(* Properties of the completion gate                                       *)
(***************************************************************************)

\* The record a writer persists when the gate does not override the request
Accepted(w) ==
    IF w.writer = "server"
    THEN Record(Clamp(w.percentage), w.current_task, CallerDesc(w.task_description))
    ELSE Record(w.percentage, w.current_task, WorkingOn(w.current_task))

\* The record a writer persists when the gate overrides a request, n missing
Blocked(w, n) ==
    Record(BLOCKED_PERCENTAGE, BlockedTask,
           IF w.writer = "server" THEN ServerBlocked(n) ELSE AgentBlocked(n))

\* C1 as stated: a write with requested percentage >= 90, made while some
\* HTML document references an absent local file, persists 85 / BLOCKED with
\* the number of missing references.
C1_Original ==
    (lastWrite.writer # "none" /\ lastWrite.percentage >= 90 /\ lastWrite.absentAny > 0)
        => progress = Blocked(lastWrite, lastWrite.absentAny)

\* C1 (amended): a write with requested percentage >= 90, made while some
\* HTML document that the scan can read references an absent local file,
\* persists percentage 85, currentTask "BLOCKED: Missing files" and a
\* description stating the number of missing references of the readable
\* documents; the requested percentage is not persisted.
C1_GateCapsCompletion ==
    (lastWrite.writer # "none" /\ lastWrite.percentage >= 90 /\ lastWrite.absentReadable > 0)
        => /\ progress = Blocked(lastWrite, lastWrite.absentReadable)
           /\ progress.percentage # lastWrite.percentage

C1_Witness ==
    /\ lastWrite.writer = "server" /\ lastWrite.percentage = 100
    /\ lastWrite.absentReadable = 2
    /\ progress.percentage = 85 /\ progress.currentTask = BlockedTask

\* C8: with missing references present, a request p in 0..89 is persisted
\* with percentage p and the caller's own task and description.
C8_GateOnlyFrom90 ==
    (lastWrite.writer # "none" /\ lastWrite.percentage \in 0..89 /\ lastWrite.absentReadable > 0)
        => /\ progress = Accepted(lastWrite)
           /\ progress.percentage = lastWrite.percentage

C8_Witness ==
    /\ lastWrite.writer = "server" /\ lastWrite.percentage = 89
    /\ lastWrite.absentReadable > 0
    /\ progress.percentage = 89 /\ progress.currentTask = lastWrite.current_task

\* C9: a request >= 90 made when the checker reports no missing reference is
\* accepted with the caller's task, whatever earlier writes were blocked.
C9_GateNotSticky ==
    (lastWrite.writer # "none" /\ lastWrite.percentage >= 90 /\ lastWrite.absentReadable = 0)
        => /\ progress = Accepted(lastWrite)
           /\ progress.currentTask = lastWrite.current_task

\* index.html references missing.html, an earlier request was capped, the
\* file now exists and the request of 100 was persisted as 100
C9_Witness ==
    /\ lastWrite.writer = "server" /\ lastWrite.blockedBefore
    /\ lastWrite.percentage = 100 /\ progress.percentage = 100
    /\ fs[IndexHtml] = File(<<Href(<<"missing.html">>)>>, TRUE)
    /\ fs[MissingHtml].exists

\* C10: in a project without HTML documents, or whose documents hold only
\* http, https and mailto links, the checker returns the empty map and no
\* progress write is overridden, whatever the requested percentage.
C10_NoLocalLinksNeverBlocks ==
    /\ LinkKind(fs) # "other" => check_missing_files_in_project(fs) = EmptyMap
    /\ (lastWrite.writer # "none" /\ lastWrite.links # "other")
          => progress = Accepted(lastWrite)

C10_Witness ==
    /\ lastWrite.links = "external_only" /\ lastWrite.percentage = 100
    /\ progress.percentage = 100
    /\ fs[IndexHtml].exists /\ Len(fs[IndexHtml].attrs) = 3 /\ LinkKind(fs) = "external_only"

C10_WitnessNoDocuments ==
    /\ lastWrite.links = "no_documents" /\ lastWrite.percentage = 90
    /\ progress.percentage = 90

\* C2 as stated: no record with percentage >= 90 is persisted by a write
\* made while some HTML document references an absent local file.
C2_Original ==
    (lastWrite.writer # "none" /\ lastWrite.absentAny > 0) => progress.percentage < 90

\* C2 (amended): over any interleaving of progress writes (server tool,
\* agent, the loop's 10/30/90/100) with creation, deletion and editing of
\* files, no record with percentage >= 90 is persisted by a write made while
\* an HTML document that the scan can read references an absent local file.
C2_GateNeverBypassed ==
    (lastWrite.writer # "none" /\ lastWrite.absentReadable > 0) => progress.percentage < 90

\* the loop's write of 100 after the queue was saved, capped
C2_Witness ==
    /\ lastWrite.writer = "agent" /\ lastWrite.percentage = 100
    /\ lastWrite.absentReadable > 0
    /\ progress.percentage = 85
    /\ marked = {1}

(***************************************************************************)
(* Properties of message_loop                                              *)
(***************************************************************************)

\* C3: once the loop has persisted a message with processed = true, no
\* later poll pass invokes the llm turn for that id.
C3_ProcessedNeverReinvoked ==
    \A id \in MsgIds : callsAfterMarked[id] = 0

\* a later pass has loaded a message the loop had marked, and invoked nothing
C3_Witness ==
    /\ pc = "poll"
    /\ trace = <<LoadQueue, Sleep(2)>>
    /\ \E i \in 1..Len(messages) : messages[i].id \in marked /\ calls[messages[i].id] = 1

\* C4: at the fifth consecutive raising iteration the loop emits
\* message_loop_error with consecutive_errors = 5, then the final log event,
\* and stops: no further poll, llm turn or backoff sleep follows.
C4_StopsAtFifthError ==
    consecutive_errors >= 5
        => /\ consecutive_errors = 5
           /\ pc = "done"
           /\ Len(trace) >= 2
           /\ trace[Len(trace) - 1] = Event("message_loop_error", 5)
           /\ trace[Len(trace)] = Event("log", 5)

C4_Witness ==
    /\ pc = "done" /\ consecutive_errors = 5
    /\ trace[Len(trace)] = Event("log", 5)
    /\ \E id \in MsgIds : calls[id] > 0

\* C5: an iteration that starts while the project directory is gone or the
\* .kill sentinel is present emits one log event and terminates, without
\* loading the queue, invoking the llm, writing progress or the queue.
C5_TerminationCheckFirst ==
    [][(pc = "poll" /\ (~projectExists \/ kill) /\ <<pc, trace>>' # <<pc, trace>>)
          => /\ pc' = "done"
             /\ trace' = <<Event("log", 0)>>
             /\ UNCHANGED <<messages, calls, progress, lastWrite, messagesFile,
                            consecutive_errors, last_message_id>>]_vars

UnprocessedInFile == {i \in 1..Len(messagesFile.list) : ~messagesFile.list[i].processed}

C5_Witness ==
    /\ pc = "done" /\ kill
    /\ trace = <<Event("log", 0)>>
    /\ UnprocessedInFile # {}
    /\ \A id \in MsgIds : calls[id] = 0

ThresholdExit == pc = "done" /\ consecutive_errors = 5

\* C6 as stated: with an llm turn that always fails and at least one
\* unprocessed message in the queue, the loop eventually terminates through
\* the consecutive-error threshold.
C6_Original == (UnprocessedInFile # {}) ~> ThresholdExit

\* C6 (amended): with an llm turn that always fails and at least two
\* unprocessed messages in the queue, the loop eventually terminates through
\* the consecutive-error threshold.
C6_FailingTurnsTerminate == (Cardinality(UnprocessedInFile) >= 2) ~> ThresholdExit

C6_Witness ==
    /\ ThresholdExit
    /\ Cardinality(UnprocessedInFile) >= 2
    /\ calls[1] + calls[2] = 5

\* C7 as stated: the llm turn is invoked at most twice for every message id.
C7_Original == \A id \in MsgIds : calls[id] <= 2

\* C7 (amended): while no other writer appends to the queue, the llm turn
\* is invoked at most three times for every message id.
C7_AtMostThreeDeliveries == ~appended => \A id \in MsgIds : calls[id] <= 3

C7_Witness == ~appended /\ \E id \in MsgIds : calls[id] = 3

(***************************************************************************)
(* Properties of link extraction                                           *)
(***************************************************************************)

\* The same attributes in another order, or repeated
Swap(s, i) == [k \in 1..Len(s) |-> IF k = i THEN s[i + 1] ELSE IF k = i + 1 THEN s[i] ELSE s[k]]

Reverse(s) == [k \in 1..Len(s) |-> s[Len(s) + 1 - k]]

Rearranged(s) == {Reverse(s), s \o s} \cup {Swap(s, i) : i \in 1..(Len(s) - 1)}

\* The values of the href/src attributes of a text
MatchedValues(attrs) ==
    {attrs[i].value : i \in {k \in 1..Len(attrs) : attrs[k].name \in MatchedAttrNames}}

HasToken(s, t) == \E i \in 1..Len(s) : s[i] = t

\* C19: for every document of the project, extraction returns exactly the set
\* of local href/src values cut at their first '?' and '#', whatever the order
\* or the multiplicity of the attributes; no returned reference is empty,
\* holds '?' or '#', or begins with one of the six skipped prefixes.
C19_ExtractionIsASet ==
    \A d \in HtmlDocs(fs) :
        LET attrs == fs[d].attrs
            links == extract_local_links_from_html(attrs)
        IN  /\ links = {Target(v) : v \in {w \in MatchedValues(attrs) : IsLocalValue(w)}} \ {<<>>}
            /\ \A r \in Rearranged(attrs) : extract_local_links_from_html(r) = links
            /\ \A l \in links :
                  /\ l # <<>>
                  /\ ~HasToken(l, "?") /\ ~HasToken(l, "#")
                  /\ Head(l) \notin {"http://", "https://", "mailto:", "#", "data:", "javascript:"}

\* Two different attribute values, one with a query string and a fragment,
\* collapsed to one reference
C19_Witness ==
    \E v, w \in MatchedValues(fs[IndexHtml].attrs) :
        /\ fs[IndexHtml].exists
        /\ v # w /\ HasToken(v, "?") /\ HasToken(v, "#")
        /\ extract_local_links_from_html(fs[IndexHtml].attrs) = {w}

(***************************************************************************)
(* Properties of the progress record                                       *)
(***************************************************************************)

\* C20: a write by update_research_progress that the gate does not override
\* persists the requested percentage limited to 0..100 (0 below 0, 100 above
\* 100); every record the server tool persists has its percentage in 0..100.
C20_ServerClamps ==
    lastWrite.writer = "server" =>
        /\ progress.percentage \in 0..100
        /\ progress.currentTask # BlockedTask =>
              progress.percentage =
                  IF lastWrite.percentage < 0 THEN 0
                  ELSE IF lastWrite.percentage > 100 THEN 100
                  ELSE lastWrite.percentage

C20_Witness ==
    /\ lastWrite.writer = "server" /\ lastWrite.percentage > 100
    /\ progress.currentTask # BlockedTask /\ progress.percentage = 100

C20_WitnessBelow ==
    /\ lastWrite.writer = "server" /\ lastWrite.percentage < 0
    /\ progress.percentage = 0

(***************************************************************************)
(* Properties of error containment                                         *)
(***************************************************************************)

\* C17: a failed write of the progress file during the processing of a
\* message does not reach the except branch of message_loop: within an
\* iteration no update_progress call is directly followed by the
\* message_loop_error event (which is emitted with the incremented counter).
C17_ProgressFailureContained ==
    \A i \in 1..(Len(trace) - 1) :
        trace[i].op = "update_progress" => trace[i + 1].op # "message_loop_error"

\* s is t with some entries left out
RECURSIVE IsSubsequence(_, _)
IsSubsequence(s, t) ==
    IF s = <<>> THEN TRUE
    ELSE IF t = <<>> THEN FALSE
    ELSE IF Head(s) = Head(t) THEN IsSubsequence(Tail(s), Tail(t))
    ELSE IsSubsequence(s, Tail(t))

NoDuplicates(s) == \A i, j \in 1..Len(s) : i # j => s[i] # s[j]

\* A record that parses is replaced by a written record
RecordReplaced == progress.written /\ ~progressFile.malformed /\ progress'.written

\* C11: once the progress file holds a record with a startedAt value, every
\* write that replaces the record (by the server tool or by update_progress
\* of the agent) persists the same startedAt value.
C11_StartedAtPreserved ==
    [][RecordReplaced /\ progressFile.startedAt # NoTime
         => progressFile'.startedAt = progressFile.startedAt]_vars

\* C12: every write that replaces a record keeps the entries of
\* completedTasks, in their order, and persists a list without duplicates.
C12_CompletedTasksAppendOnly ==
    [][RecordReplaced
         => /\ IsSubsequence(progressFile.completedTasks, progressFile'.completedTasks)
            /\ NoDuplicates(progressFile'.completedTasks)]_vars

(***************************************************************************)
(* Properties of the percentages of one agent process                      *)
(***************************************************************************)

\* The write was capped by the gate
CappedByGate(d) == d.request >= 90 /\ d.to = 85

\* C13 as stated: over the writes of one agent process (the phases of
\* run_research, then message_loop) the persisted percentage decreases from
\* one write to the next only when the gate caps a request >= 90 at 85.
C13_Original == session.drop # NoDrop => CappedByGate(session.drop)

\* C13: over the writes of one agent process the persisted percentage
\* decreases from one write to the next only when the gate caps a request
\* >= 90 at 85, or at the first write for a follow-up message, which
\* persists 10.
C13_DropsOnlyAtGateOrFollowUp ==
    session.drop # NoDrop =>
        \/ CappedByGate(session.drop)
        \/ /\ session.drop.current_task = "Processing follow-up request"
           /\ session.drop.to = 10

\* A follow-up message processed after the run reached 100
C13_Witness ==
    /\ session.drop.current_task = "Processing follow-up request"
    /\ session.drop.from = 100 /\ session.drop.to = 10
    /\ pc = "scan" /\ marked # {}

\* A phase write capped after 90 was persisted
C13_WitnessCapped ==
    /\ CappedByGate(session.drop) /\ session.drop.from = 90

(***************************************************************************)
(* Properties of the activity store and of the log handler                 *)
(***************************************************************************)

\* An emit step that passed an activity to write_activity_to_file
Appends == lines' = lines + 1 /\ Len(handed') = Len(handed) + 1

Loaded(file) == IF file.exists /\ ~file.malformed THEN file.list ELSE <<>>

\* The number of oldest entries that do not fit beside one more
Overflow(list) == IF Len(list) + 1 > 1000 THEN Len(list) + 1 - 1000 ELSE 0

SameEvent(a, e) == [a EXCEPT !.id = NoId] = e

\* C14: every append that is written leaves at most 1000 entries: the new
\* activity is last, and before it come the entries of the list that was
\* read, in their order and unchanged, without exactly the oldest ones that
\* do not fit.
C14_KeepsMostRecent ==
    [][Appends /\ lastEmit'.ok
         => LET old == Loaded(activitiesFile)
                new == activitiesFile'.list
                n   == Len(new)
            IN  /\ n <= 1000
                /\ n = Len(old) + 1 - Overflow(old)
                /\ SameEvent(new[n], handed'[Len(handed')])
                /\ \A i \in 1..(n - 1) : new[i] = old[i + Overflow(old)]]_vars

\* An append made to a full list: the oldest entry has gone
C14_Witness ==
    /\ lastEmit.ok /\ lastEmit.rule = 3
    /\ Len(activitiesFile.list) = 1000
    /\ activitiesFile.list[1] = PriorActivity(3, 999)
    /\ activitiesFile.list[1000].line = 3

\* C15: every event printed by emit is passed to write_activity_to_file,
\* once: the events printed and the activities passed are the same sequence.
C15_EveryEventStored == handed = stdout

\* C16: a log record produces at most one event, and the branch that handles
\* it is the first one, in the order of the nine rules, whose condition the
\* record meets: no event for the sensitive and the announcement branches
\* (the latter sets pending_tool_call), a tool_call for branches 3 to 7, a
\* thought for 8, a tool_result for 9 when there is an output.
RuleMatches(r, line, pending) ==
    CASE r = 1 -> line.sensitive
      [] r = 2 -> line.requesting
      [] r = 3 -> line.tool_name # ""
      [] r = 4 -> (pending \/ line.tools_call) /\ line.name \notin {"", "tools/call", "call"}
      [] r = 5 -> line.line_action # ""
      [] r = 6 -> line.verb_args # ""
      [] r = 7 -> line.verb # "" /\ Lower(line.verb) \notin BlockList
      [] r = 8 -> line.prefixes # {}
      [] r = 9 -> line.results
      [] OTHER -> TRUE

FirstRule(line, pending) ==
    CHOOSE r \in 1..10 : /\ RuleMatches(r, line, pending)
                         /\ \A q \in 1..(r - 1) : ~RuleMatches(q, line, pending)

EventsOfLine(n) == {i \in 1..Len(stdout) : stdout[i].line = n}

EventType(r) ==
    IF r \in 3..7 THEN "tool_call" ELSE IF r = 8 THEN "thought" ELSE "tool_result"

C16_FirstMatchWins ==
    lines > 0 =>
        LET r == FirstRule(lastEmit.line, lastEmit.pending)
            events == EventsOfLine(lines)
        IN  /\ lastEmit.rule = r
            /\ Cardinality(events) <= 1
            /\ \A n \in 1..lines : Cardinality(EventsOfLine(n)) <= 1
            /\ r \in {1, 2, 10} => events = {}
            /\ r \in 3..8 => Cardinality(events) = 1
            /\ \A i \in events : stdout[i].type = EventType(r)
            /\ r = 2 => pending_tool_call
            /\ r = 3 => \A i \in events : stdout[i].tool = lastEmit.line.tool_name

\* The announcement and a quoted tool_name in one record: nothing is printed
C16_Witness ==
    /\ lines > 0
    /\ lastEmit.line.requesting /\ lastEmit.line.tool_name # "" /\ ~lastEmit.line.sensitive
    /\ EventsOfLine(lines) = {}
    /\ pending_tool_call /\ last_tool_called = ""

\* A generic name under the call-method marker: the record is left to the
\* thought branch
C16_WitnessFallsThrough ==
    /\ lines > 0
    /\ lastEmit.line.tools_call /\ lastEmit.line.name = "call"
    /\ lastEmit.rule = 8

\* C18: an append never raises into emit: whatever the state of the file and
\* the outcome of the write, emit ends without a logging error and with its
\* event printed; an unparsable file is replaced by the list of the one new
\* activity; a failed write leaves the file as it was and one message on
\* stderr.
C18_AppendNeverRaises ==
    [][Appends
         => /\ stderr' # "--- Logging error ---"
            /\ Len(stdout') = Len(stdout) + 1
            /\ stdout'[Len(stdout')] = handed'[Len(handed')]
            /\ last_tool_called' = Classify(lastEmit'.line, last_tool_called, pending_tool_call).last_tool_called
            /\ IF lastEmit'.ok
               THEN /\ stderr' = ""
                    /\ activitiesFile.malformed =>
                          /\ ~activitiesFile'.malformed
                          /\ Len(activitiesFile'.list) = 1
                          /\ SameEvent(activitiesFile'.list[1], handed'[Len(handed')])
               ELSE /\ stderr' = "Failed to write activity file"
                    /\ activitiesFile' = activitiesFile]_vars

\* A failed write met by a later record that is classified and stored
C18_Witness ==
    /\ lines = 2 /\ Len(stdout) = 2
    /\ Len(activitiesFile.list) = 1
    /\ activitiesFile.list[1].line = 2
    /\ lastEmit.ok

\* An unparsable file replaced
C18_WitnessUnparsable ==
    /\ lines = 1 /\ Len(handed) = 1
    /\ activitiesFile = Stored(<<[handed[1] EXCEPT !.id = [ms |-> now, type |-> handed[1].type]]>>)

(***************************************************************************)
(* Properties of completedTasks under the server tool                      *)
(***************************************************************************)

\* The step is a write of the server tool
ServerWrote ==
    /\ lastWrite'.writer = "server"
    /\ <<progress', progressFile', lastWrite'>> # <<progress, progressFile, lastWrite>>
    /\ ~progressFile'.malformed

\* The completedTasks list the write starts from: the list of the record on
\* disk when it parses, the empty list otherwise
LoadedTasks ==
    IF progress.written /\ ~progressFile.malformed THEN progressFile.completedTasks ELSE <<>>

\* C22: a write of the server tool appends the caller's task to
\* completedTasks exactly when the task is not in the list, is not empty and
\* 0 < percentage < 100; in every other case the list is persisted unchanged.
C22_AppendsExactlyWhen ==
    [][ServerWrote
         => LET t == lastWrite'.current_task
                p == lastWrite'.percentage
            IN  progressFile'.completedTasks =
                    IF t \notin Range(LoadedTasks) /\ t # "" /\ p > 0 /\ p < 100
                    THEN Append(LoadedTasks, t)
                    ELSE LoadedTasks]_vars

\* C23: a write of the server tool that the gate overrides persists none of
\* the caller's task, description and percentage: the record holds the
\* blocked values, and a task that was not in completedTasks before the write
\* is not in it afterwards.
C23_BlockedWriteDiscardsRequest ==
    [][ServerWrote /\ progress'.currentTask = BlockedTask
         => /\ progress'.percentage # lastWrite'.percentage
            /\ progress'.currentTask # lastWrite'.current_task
            /\ progress'.currentTaskDescription # CallerDesc(lastWrite'.task_description)
            /\ lastWrite'.current_task \notin Range(LoadedTasks)
                 => lastWrite'.current_task \notin Range(progressFile'.completedTasks)]_vars

(***************************************************************************)
(* Properties of one message's processing inside message_loop              *)
(***************************************************************************)

\* The position in trace where the processing of the message that reached
\* position k began, 0 when trace holds no such position
Start(k) ==
    LET starts == {j \in 1..k : trace[j].op = "user_message_received"}
    IN  IF starts = {} THEN 0
        ELSE CHOOSE j \in starts : \A i \in starts : i <= j

Segment(k) == IF Start(k) = 0 THEN <<>> ELSE SubSeq(trace, Start(k), k)

IsProgressWrite(e) == e.op = "update_progress"

\* The events printed for the portal, as opposed to the calls the loop makes
LiveEvents == {"user_message_received", "llm_starting", "llm_completed",
               "message_processed", "assistant_response"}

IsLive(e) == e.op \in LiveEvents

Ops(seq) == [i \in 1..Len(seq) |-> seq[i].op]

Positions(seq, e) == {i \in 1..Len(seq) : seq[i] = e}

\* C24: for every message processed successfully the progress writes
\* requested are 10, 30, 90, 100 in that order: 10 and 30 before the llm
\* turn, 90 after it returned and before the queue is written, 100 right
\* after the queue with the message marked processed was written.
C24_ProgressBracketsLlmTurn ==
    \A k \in 1..Len(trace) :
        /\ trace[k].op = "message_processed" =>
              LET seg == Segment(k)
                  id == trace[k].n
              IN  /\ SelectSeq(seg, IsProgressWrite) =
                         <<ProgressWrite(10), ProgressWrite(30), ProgressWrite(90), ProgressWrite(100)>>
                  /\ Cardinality(Positions(seg, LlmTurn(id))) = 1
                  /\ Cardinality(Positions(seg, QueueWrite)) = 1
                  /\ \A l \in Positions(seg, LlmTurn(id)), q \in Positions(seg, QueueWrite) :
                        /\ \A w \in Positions(seg, ProgressWrite(10)) \cup Positions(seg, ProgressWrite(30)) : w < l
                        /\ \A w \in Positions(seg, ProgressWrite(90)) : l < w /\ w < q
                        /\ \A w \in Positions(seg, ProgressWrite(100)) : q < w
                  /\ id \in marked
        /\ trace[k] = ProgressWrite(100) => k > 1 /\ trace[k - 1] = QueueWrite

\* A pass that processed two messages, each with its four writes
C24_Witness ==
    /\ Cardinality({k \in 1..Len(trace) : trace[k].op = "message_processed"}) = 2
    /\ Len(SelectSeq(trace, IsProgressWrite)) = 8
    /\ progress.percentage = 100

\* C25: for every message processed successfully the events printed are
\* user_message_received, llm_starting, llm_completed, message_processed,
\* assistant_response in that order; the last two come after the write of
\* .messages.json with the message marked, and nothing of the two is printed
\* in an iteration after its llm turn or any other step raised.
C25_LiveEventsInOrder ==
    \A k \in 1..Len(trace) :
        /\ trace[k].op = "assistant_response" =>
              LET seg == Segment(k)
                  id == trace[k].n
              IN  /\ Ops(SelectSeq(seg, IsLive)) =
                         <<"user_message_received", "llm_starting", "llm_completed",
                           "message_processed", "assistant_response">>
                  /\ seg[1].n = id
                  /\ trace[k - 1] = Event("message_processed", id)
                  /\ \E q \in Positions(seg, QueueWrite), l \in Positions(seg, LlmTurn(id)) :
                        l < q /\ q < Len(seg) - 1
                  /\ id \in marked
        /\ trace[k].op = "message_processed" =>
              k < Len(trace) /\ trace[k + 1] = Event("assistant_response", trace[k].n)
        /\ trace[k].op = "message_loop_error" =>
              \A j \in (k + 1)..Len(trace) :
                  trace[j].op \notin {"message_processed", "assistant_response"}

\* The five events of a message whose processing just ended
C25_Witness ==
    /\ pc = "scan"
    /\ Len(trace) >= 3
    /\ trace[Len(trace) - 1].op = "assistant_response"
    /\ trace[Len(trace) - 1].n \in marked
    /\ messagesFile.exists /\ ~messagesFile.malformed
    /\ \E i \in 1..Len(messagesFile.list) :
          /\ messagesFile.list[i].id = trace[Len(trace) - 1].n
          /\ messagesFile.list[i].processed

\* C26: the loop ends on the sentinel only at the top of an iteration: a
\* step taken while a message is being processed never ends the loop because
\* the sentinel is there, the top of the next iteration with the sentinel
\* present ends it, and every llm turn of an iteration has returned or
\* raised before the next one starts.
C26_CooperativeCancel ==
    [][/\ (pc \in {"scan", "llm", "p90", "save"} /\ kill /\ pc' = "done")
            => /\ ShouldExit(consecutive_errors')
               /\ trace'[Len(trace') - 1].op = "message_loop_error"
       /\ (pc = "poll" /\ kill /\ <<pc, trace>>' # <<pc, trace>>) => pc' = "done"
       /\ (pc = "llm" /\ pc' = "p90" /\ kill)
            => /\ trace' = trace \o <<LlmTurn(messages[idx].id)>>
               /\ calls'[messages[idx].id] = calls[messages[idx].id] + 1
       /\ \A k \in 1..Len(trace') :
              (trace'[k].op = "llm.generate_str" /\ k < Len(trace'))
                 => trace'[k + 1].op \in {"llm_completed", "message_loop_error"}]_vars

\* The sentinel appeared during the only llm turn of a message; the turn
\* returned, the message was persisted as processed, and the loop ended at
\* the top of the next iteration
C26_Witness ==
    /\ kill /\ projectExists
    /\ killedAt.pc = "llm"
    /\ calls[killedAt.id] = 1
    /\ killedAt.id \in marked
    /\ pc = "done"
    /\ trace = <<Event("log", 0)>>


\* C27: consecutive_errors is in 0..5; a step changes it only by adding one
\* (the iteration raised, and the message_loop_error event carries the new
\* count) or by resetting it to 0 (the iteration ended with its sleep of 2,
\* whether or not it found a message); an iteration never starts or runs with
\* the counter at 5.
C27_ErrorCounter ==
    [][/\ consecutive_errors' \in 0..max_consecutive_errors
       /\ pc' \in {"poll", "scan", "llm", "p90", "save"} => consecutive_errors' < max_consecutive_errors
       /\ LET raised == /\ trace' # <<>>
                        /\ \E k \in 1..Len(trace') : trace'[k].op = "message_loop_error"
                        /\ trace' # trace
              ended  == /\ trace' # <<>> /\ trace'[Len(trace')] = Sleep(2)
                        /\ trace' # trace
          IN  /\ raised => /\ consecutive_errors' = consecutive_errors + 1
                           /\ \A k \in 1..Len(trace') :
                                 trace'[k].op = "message_loop_error"
                                    => trace'[k].n = consecutive_errors'
              /\ ended => consecutive_errors' = 0
              /\ ~raised /\ ~ended => consecutive_errors' = consecutive_errors]_vars

\* Four failed iterations behind, an idle pass has just reset the counter
C27_Witness ==
    /\ consecutive_errors = 0
    /\ trace = <<LoadQueue, Sleep(2)>>
    /\ \E id \in MsgIds : calls[id] >= 1 /\ id \notin marked

\* The counter at 4 between two iterations
C27_WitnessFour ==
    /\ consecutive_errors = max_consecutive_errors - 1
    /\ pc = "poll"

\* The messages of .messages.json that are processed
ProcessedInFile ==
    IF messagesFile.exists /\ ~messagesFile.malformed
    THEN {messagesFile.list[i] : i \in {j \in 1..Len(messagesFile.list) : messagesFile.list[j].processed}}
    ELSE {}

\* The loop writes .messages.json: the step of Save that did not raise
LoopWritesQueue == pc = "save" /\ pc' = "scan" /\ trace' # trace

\* C28: a message that is processed is never changed by the loop: a write of
\* .messages.json by the loop persists every message that was processed in
\* the loaded list, and every processed message of the file, with the same
\* processed, response and processed_at; and no step of the loop changes a
\* processed message of the loaded list.
C28_ProcessedIsTerminal ==
    [][/\ LoopWritesQueue =>
             /\ \A i \in 1..Len(messages) :
                    messages[i].processed => messagesFile'.list[i] = messages[i]
             /\ \A m \in ProcessedInFile :
                    \E i \in 1..Len(messagesFile'.list) : messagesFile'.list[i] = m
       /\ pc \in {"scan", "llm", "p90", "save"} =>
             \A i \in 1..Len(messages) :
                 messages[i].processed => messages'[i] = messages[i]]_vars

\* The loop wrote a queue that holds a message processed before the loop
\* started, next to one it processed itself
C28_Witness ==
    /\ messagesFile.exists /\ ~messagesFile.malformed
    /\ Len(messagesFile.list) = 2
    /\ messagesFile.list[1] = Msg(1, TRUE)
    /\ messagesFile.list[2].processed
    /\ messagesFile.list[2].response = "answer"
    /\ marked = {2}

(***************************************************************************)
(* Properties of the two class attributes of the log handler               *)
(***************************************************************************)

\* emit handles one record
Emits == lines' = lines + 1

\* The tool name the record handled makes known: the tool of its tool_call,
\* or the Action token of a thought; "" when it has neither
Detected(line, rule) ==
    IF rule = 3 THEN line.tool_name
    ELSE IF rule = 4 THEN line.name
    ELSE IF rule = 5 THEN line.line_action
    ELSE IF rule = 6 THEN line.verb_args
    ELSE IF rule = 7 THEN line.verb
    ELSE IF rule = 8 THEN line.action
    ELSE ""

\* C29: pending_tool_call becomes true on an announcement, which prints
\* nothing, and on no other record; once true it stays true until a record
\* yields a tool_call through the quoted tool_name or the quoted name, which
\* clears it; while it is true a record with a quoted name that is not a
\* generic method name yields a tool_call with that name without the
\* call-method marker, and a generic name leaves it set.
C29_PendingToolCall ==
    [][Emits
         => LET line == lastEmit'.line
                rule == lastEmit'.rule
                reaches_name == ~line.sensitive /\ ~line.requesting /\ line.tool_name = ""
            IN  /\ (line.requesting /\ ~line.sensitive) <=> rule = 2
                /\ rule = 2 => pending_tool_call' /\ stdout' = stdout
                /\ rule \in {3, 4} => ~pending_tool_call'
                /\ rule \notin {2, 3, 4} => pending_tool_call' = pending_tool_call
                /\ (pending_tool_call /\ reaches_name /\ line.name # "" /\ line.name \notin MethodNames)
                     => /\ rule = 4
                        /\ Len(stdout') = Len(stdout) + 1
                        /\ stdout'[Len(stdout')].type = "tool_call"
                        /\ stdout'[Len(stdout')].tool = line.name
                /\ (pending_tool_call /\ reaches_name /\ line.name \in MethodNames)
                     => pending_tool_call']_vars

\* An announcement, a record of another kind that left the flag set, then a
\* quoted name without the call-method marker that became a tool_call
C29_Witness ==
    /\ lines = 3 /\ Len(stdout) = 2
    /\ stdout[1].line = 2 /\ stdout[2].line = 3
    /\ lastEmit.rule = 4 /\ lastEmit.pending /\ ~lastEmit.line.tools_call
    /\ stdout[2].tool = lastEmit.line.name
    /\ ~pending_tool_call

\* A generic name met while the flag is set
C29_WitnessGeneric ==
    /\ lines = 2
    /\ lastEmit.pending /\ lastEmit.line.name = "call"
    /\ pending_tool_call

\* C30: last_tool_called is the tool of the most recent tool_call or Action
\* token of a thought, whatever branch found it; a tool_result carries it when
\* there is one, and otherwise the tool inferred from the output, "Unknown
\* Tool" when nothing is recognised.
C30_ResultCarriesLastTool ==
    [][Emits
         => LET line == lastEmit'.line
                rule == lastEmit'.rule
                found == Detected(line, rule)
            IN  /\ last_tool_called' = IF found # "" THEN found ELSE last_tool_called
                /\ (rule \in 3..7) => /\ found # ""
                                      /\ stdout'[Len(stdout')].type = "tool_call"
                                      /\ stdout'[Len(stdout')].tool = found
                /\ (rule = 9 /\ line.output # <<>>)
                     => /\ Len(stdout') = Len(stdout) + 1
                        /\ stdout'[Len(stdout')].type = "tool_result"
                        /\ stdout'[Len(stdout')].tool =
                              IF last_tool_called # "" THEN last_tool_called
                              ELSE infer_tool_from_output(line.output)
                        /\ (last_tool_called = "" /\ line.output = <<"done">>)
                              => stdout'[Len(stdout')].tool = "Unknown Tool"]_vars

\* A result whose output reads like write_file's, attributed to the tool of
\* the simple-verb record before it
C30_Witness ==
    /\ lines = 2 /\ Len(stdout) = 2
    /\ stdout[1].type = "tool_call" /\ stdout[1].tool = "web_search"
    /\ handed = <<stdout[2]>>
    /\ stdout[2].type = "tool_result" /\ stdout[2].tool = "web_search"
    /\ infer_tool_from_output(lastEmit.line.output) = "write_file"

\* A result after a thought with an Action token and no tool_call
C30_WitnessThought ==
    /\ Len(stdout) = 2
    /\ stdout[1].type = "thought"
    /\ stdout[2].type = "tool_result" /\ stdout[2].tool = "crawl_url"

\* The first record is a result that nothing is recognised in
C30_WitnessUnknown ==
    /\ lines = 1 /\ Len(stdout) = 1
    /\ stdout[1].type = "tool_result" /\ stdout[1].tool = "Unknown Tool"

(***************************************************************************)
(* Properties of the path check of the filesystem tools                    *)
(***************************************************************************)

\* The path is the directory or below it
Within(p, base) == Len(p) >= Len(base) /\ SubSeq(p, 1, Len(base)) = base

\* A relative path placed under the first allowed directory (under the
\* working directory when there is none)
Placed(path) ==
    IF path.absolute THEN path.parts
    ELSE IF ALLOWED_BASE_DIRS # <<>> THEN ALLOWED_BASE_DIRS[1] \o path.parts
    ELSE Cwd \o path.parts

\* The components with every ".." and the component before it taken out
RECURSIVE Normalise(_, _)
Normalise(done, rest) ==
    IF rest = <<>> THEN done
    ELSE IF Head(rest) = ".."
    THEN Normalise(IF done = <<>> THEN <<>> ELSE SubSeq(done, 1, Len(done) - 1), Tail(rest))
    ELSE Normalise(Append(done, Head(rest)), Tail(rest))

InAllowed(p) == \E i \in 1..Len(ALLOWED_BASE_DIRS) : Within(p, ALLOWED_BASE_DIRS[i])

\* The call was refused and the tree is as it was
Refused == result'.raised = OutsideAllowed /\ disk' = disk

\* C21 as stated: a tool called with a path that, placed under the first
\* allowed directory and with its ".." segments normalised, is not within an
\* allowed directory raises ValueError and leaves the tree as it was.
C21_Original ==
    [][(result'.tool # "" /\ ~InAllowed(Normalise(<<>>, Placed(result'.path)))) => Refused]_vars

\* C21: a tool called with a path whose real location (the path placed under
\* the first allowed directory, with its ".." segments and its symbolic links
\* resolved) is not within an allowed directory raises ValueError and leaves
\* the tree as it was; with no allowed directory every call is refused; and no
\* call changes anything outside the allowed directories.
C21_OutsideIsRejected ==
    [][result'.tool # ""
         => /\ ~InAllowed(Walk(<<>>, Placed(result'.path))) => Refused
            /\ ALLOWED_BASE_DIRS = <<>> => Refused
            /\ \A q \in Nodes : ~InAllowed(q) => disk'[q] = disk[q]]_vars

\* A traversal out of the allowed directory refused by write_file, after a
\* write inside it was made
C21_Witness ==
    /\ ALLOWED_BASE_DIRS = <<Research>>
    /\ result = Result("write_file", Path(TRUE, Research \o <<"..", "etc", "passwd">>),
                       OutsideAllowed, {})
    /\ disk[Research \o <<"report.html">>].kind = "file"
    /\ disk[<<"etc", "passwd">>] = Text("a")

\* A link inside the allowed directory that leads out of it, refused
C21_WitnessLink ==
    /\ ALLOWED_BASE_DIRS # <<>>
    /\ result.path = Path(TRUE, SymlinkOut \o <<"passwd">>)
    /\ result.raised = OutsideAllowed

\* No directory configured: a relative path refused
C21_WitnessNone ==
    /\ ALLOWED_BASE_DIRS = <<>>
    /\ result.tool = "file_exists" /\ ~result.path.absolute
    /\ result.raised = OutsideAllowed

(***************************************************************************)
(* Properties of the order and of the ids of the activities                *)
(***************************************************************************)

\* The entries come in the order of the log records they were made from
InLineOrder(list) == \A i \in 1..(Len(list) - 1) : list[i].line < list[i + 1].line

\* C31: the events printed and the activities stored come in the order of the
\* log records that produced them: what emit prints and stores for record n
\* is added, behind everything printed and stored before, in the call that
\* handles record n, before record n + 1 is handled.
C31_EventsInLineOrder ==
    [][Emits
         => /\ Len(stdout') >= Len(stdout)
            /\ SubSeq(stdout', 1, Len(stdout)) = stdout
            /\ \A i \in (Len(stdout) + 1)..Len(stdout') : stdout'[i].line = lines'
            /\ InLineOrder(stdout')
            /\ InLineOrder(activitiesFile'.list)
            /\ activitiesFile' # activitiesFile
                 => LET new == activitiesFile'.list
                    IN  /\ new[Len(new)].line = lines'
                        /\ SameEvent(new[Len(new)], stdout'[Len(stdout')])]_vars

\* Three records, each printed and stored before the next
C31_Witness ==
    /\ lines = 3 /\ Len(stdout) = 3
    /\ Len(activitiesFile.list) = 3
    /\ \A i \in 1..3 : stdout[i].line = i /\ SameEvent(activitiesFile.list[i], stdout[i])
    /\ stdout[1].type # stdout[2].type

\* C33: the ids of the activities of .activities.json are pairwise different.
C33_ActivityIdsDiffer ==
    \A i, j \in 1..Len(activitiesFile.list) :
        i # j => activitiesFile.list[i].id # activitiesFile.list[j].id

(***************************************************************************)
(* Properties of the missing-reference map                                 *)
(***************************************************************************)

\* The map the scan returns for the project directory as it is
MissingMap == check_missing_files_in_project(fs)

\* The references of a document whose file is absent
AbsentOf(d) == {pr[2] : pr \in AbsentPairs(fs, {d})}

\* C32: the map has a key for a document exactly when the document can be
\* read and one of its local references leads to a path that does not exist,
\* and the key's value holds those references; a document that cannot be read
\* has no key and takes no key away from the others.
C32_KeysOfReadableDocuments ==
    /\ DOMAIN MissingMap = {d \in HtmlDocs(fs) : fs[d].readable /\ AbsentOf(d) # {}}
    /\ \A d \in DOMAIN MissingMap : MissingMap[d] = AbsentOf(d)

\* index.html cannot be read and sub/page.html can; both reference an absent
\* file, the map has the key of sub/page.html alone, and a write of 100 was
\* blocked on it
C32_Witness ==
    /\ fs[IndexHtml].exists /\ ~fs[IndexHtml].readable
    /\ AbsentOf(IndexHtml) # {}
    /\ DOMAIN MissingMap = {SubPage}
    /\ lastWrite.percentage = 100 /\ lastWrite.absentAny = 2 /\ lastWrite.absentReadable = 1
    /\ progress.currentTask = BlockedTask

\* C40: a document in the root is visited twice by the scan and still has one
\* key, whose value holds each missing reference once; the total of the map,
\* and the count in the description of a blocked record, is the number of
\* distinct (document, missing reference) pairs of the readable documents.
C40_CountsDistinctPairs ==
    /\ TotalMissing(MissingMap) = Cardinality(AbsentPairs(fs, ReadableDocs(fs)))
    /\ \A d \in DOMAIN MissingMap : Cardinality(MissingMap[d]) = Cardinality(AbsentPairs(fs, {d}))
    /\ (lastWrite.writer # "none" /\ progress.currentTask = BlockedTask)
          => progress.currentTaskDescription.n = lastWrite.absentReadable

\* index.html, found by both patterns, references missing.html twice and
\* logo.png once; sub/page.html references one absent file: the count is 3
C40_Witness ==
    /\ \E i \in 1..Len(GlobRoot(fs)) : GlobRoot(fs)[i] = IndexHtml
    /\ \E i \in 1..Len(GlobRecursive(fs)) : GlobRecursive(fs)[i] = IndexHtml
    /\ Len(fs[IndexHtml].attrs) = 3
    /\ DOMAIN MissingMap = {IndexHtml, SubPage}
    /\ MissingMap[IndexHtml] = {<<"missing.html">>, <<"logo.png">>}
    /\ lastWrite.writer = "server"
    /\ progress.currentTask = BlockedTask
    /\ progress.currentTaskDescription = ServerBlocked(3)

(***************************************************************************)
(* Properties of last_message_id                                           *)
(***************************************************************************)

\* The id of the message the step picks up in the for loop, None when the
\* step picks up no message
PickedUp ==
    IF pc = "scan" /\ Len(trace') > Len(trace)
       /\ trace'[Len(trace) + 1].op = "user_message_received"
    THEN trace'[Len(trace) + 1].n
    ELSE None

\* The step ends an iteration in the except branch while a message was being
\* processed
RaisedOnMessage ==
    /\ trace' # trace
    /\ \E k \in 1..Len(trace') : trace'[k].op = "message_loop_error"
    /\ \E k \in 1..Len(trace') : trace'[k].op = "user_message_received"

\* The message that was being processed when the iteration of trace' raised
RaisedOn ==
    LET starts == {k \in 1..Len(trace') : trace'[k].op = "user_message_received"}
    IN  trace'[CHOOSE k \in starts : \A j \in starts : j <= k].n

\* C34: a message is recorded as the last-seen id when it is picked up, so it
\* is the last-seen id when its processing raises; the last-seen id changes
\* only when a message is picked up, and the message picked up is never the
\* last-seen one: a message whose processing raised is attempted again only
\* after another message was picked up, and a pass that picks up nothing
\* resets the error counter.
C34_FailedMessageSkipped ==
    [][/\ PickedUp # None => last_message_id # PickedUp /\ last_message_id' = PickedUp
       /\ PickedUp = None => last_message_id' = last_message_id
       /\ RaisedOnMessage => last_message_id' = RaisedOn
       /\ \A id \in MsgIds :
             calls'[id] > calls[id] => last_message_id = id /\ pc = "llm"
       /\ (pc = "scan" /\ PickedUp = None /\ trace' # trace) => consecutive_errors' = 0]_vars

\* The only unprocessed message failed once; the passes that followed skipped
\* it and reset the counter
C34_Witness ==
    /\ pc = "poll"
    /\ trace = <<LoadQueue, Sleep(2)>>
    /\ consecutive_errors = 0
    /\ messagesFile.exists /\ ~messagesFile.malformed
    /\ Cardinality(UnprocessedInFile) = 1
    /\ \A i \in UnprocessedInFile :
          /\ messagesFile.list[i].id = last_message_id
          /\ calls[last_message_id] = 1
          /\ last_message_id \notin marked
    /\ ~appended

\* A message attempted again after another one was picked up in between
C34_WitnessRetried ==
    /\ calls[1] = 2 /\ calls[2] = 1
    /\ marked = {}
    /\ last_message_id = 1

(***************************************************************************)
(* C35: the queue file the loop writes is the list it loaded at the start  *)
(* of the pass, changed only at the messages processed in the pass; the    *)
(* other records keep their position, and a record another writer added    *)
(* after the load is not in the file after the write                       *)
(***************************************************************************)
IdsOf(list) == {list[i].id : i \in 1..Len(list)}

C35_QueueWriteIsSnapshot ==
    [][/\ (pc = "poll" /\ pc' = "scan" => messages' = messagesFile.list)
       /\ (pc \in {"scan", "llm", "p90"} => messages' = messages)
       /\ (pc = "save" /\ pc' # "save" =>
              /\ Len(messages') = Len(messages)
              /\ \A i \in 1..Len(messages) :
                     messages'[i] = IF i = idx
                                    THEN [messages[i] EXCEPT !.processed = TRUE,
                                                             !.response = response,
                                                             !.processed_at = TRUE]
                                    ELSE messages[i])
       /\ (LoopWritesQueue =>
              /\ messagesFile'.list = messages'
              /\ \A id \in QueueIds \ IdsOf(messages) :
                     id \notin IdsOf(messagesFile'.list) /\ id \in dropped')]_vars

\* The loop loaded [1], the portal added 2, and the write of the loop left [1]
C35_Witness ==
    /\ pc = "scan"
    /\ dropped = {2}
    /\ marked = {1}
    /\ QueueIds = {1}
    /\ messagesFile.list = messages
    /\ messages[1].processed /\ messages[1].response # ""

(***************************************************************************)
(* C36: the loop writes processed = true for a message only after the llm  *)
(* turn of that message returned, and together with the response and       *)
(* processed_at; no file it writes holds a message it marked processed     *)
(* without a response; a message whose llm turn raised stays unprocessed   *)
(* in the file                                                             *)
(***************************************************************************)
\* The llm turn of the message at idx raises
LlmRaises == pc = "llm" /\ pc' \in {"poll", "done"} /\ calls' # calls

\* The records of the queue file with this id
InFile(id) ==
    {messagesFile.list[i] : i \in {j \in 1..Len(messagesFile.list) : messagesFile.list[j].id = id}}

C36_ProcessedOnlyWithResponse ==
    [][/\ (LoopWritesQueue =>
              /\ trace[Len(trace) - 2] = LlmTurn(messages[idx].id)
              /\ response \in Responses
              /\ messagesFile'.list[idx].id = messages[idx].id
              /\ messagesFile'.list[idx].processed
              /\ messagesFile'.list[idx].response = response
              /\ messagesFile'.list[idx].processed_at
              /\ \A i \in 1..Len(messagesFile'.list) :
                     messagesFile'.list[i].processed =>
                         /\ messagesFile'.list[i].response # ""
                         /\ messagesFile'.list[i].processed_at)
       /\ (LlmRaises =>
              /\ messagesFile' = messagesFile
              /\ marked' = marked
              /\ \A m \in InFile(messages[idx].id) : ~m.processed)]_vars

\* Message 1 was answered and written; the llm turn of message 2 raised and
\* message 2 is still unprocessed in the file
C36_Witness ==
    /\ pc = "poll"
    /\ consecutive_errors = 1
    /\ marked = {1}
    /\ calls[2] = 1
    /\ Len(messagesFile.list) = 2
    /\ messagesFile.list[1].processed /\ messagesFile.list[1].response = "answer"
    /\ messagesFile.list[2].id = 2 /\ ~messagesFile.list[2].processed
    /\ messagesFile.list[2].response = ""

(***************************************************************************)
(* C37: the gate does not stop the processing of a message. While a        *)
(* readable HTML document references a file that does not exist, the       *)
(* writes of 90 and of 100 of the loop are both persisted as 85 / BLOCKED, *)
(* and still the message is marked processed, message_processed,           *)
(* assistant_response and research_fully_completed are emitted, and the    *)
(* progress record left after the message is the one of 85                 *)
(***************************************************************************)
\* The documents of the project reference files that do not exist
MissingNow == projectExists /\ DOMAIN MissingMap # {}

BlockedRecord(p) == p.percentage = BLOCKED_PERCENTAGE /\ p.currentTask = BlockedTask

\* The last n operations of a trace
Last(tr, n) == SubSeq(tr, Len(tr) - n + 1, Len(tr))

LoopMoves == loopVars' # loopVars \/ trace' # trace

C38_SentinelIsLeftInPlace ==
    [][/\ (LoopMoves => kill' = kill /\ killedAt' = killedAt)
       /\ (pc = "poll" /\ pc' = "done" /\ kill => kill')
       /\ (pc = "done" /\ pc' = "poll" => kill')
       /\ (pc = "poll" /\ LoopMoves /\ kill /\ projectExists
               /\ trace = <<Event("message_loop_started", 0)>> =>
              /\ pc' = "done"
              /\ trace' = <<Event("log", 0)>>
              /\ calls' = calls
              /\ messagesFile' = messagesFile
              /\ messages' = <<>>
              /\ marked' = marked)]_vars

\* A second loop on the project has terminated on the sentinel that ended
\* the first one after it had processed message 1
C38_Witness ==
    /\ pc = "done"
    /\ projectExists /\ kill
    /\ trace = <<Event("log", 0)>>
    /\ last_message_id = None
    /\ messages = <<>>
    /\ marked = {1} /\ calls[1] = 1

(***************************************************************************)
(* C39: last_tool_called is never reset once it is set. After the first    *)
(* tool detection no tool_result is attributed by inference; a tool_result *)
(* that follows no new tool call carries the name of the earlier call; a   *)
(* record with a sensitive marker, an announcement and a record in which   *)
(* nothing is recognised leave last_tool_called as it is                   *)
(***************************************************************************)
\* Every tool_result printed after a tool_call, with only tool_results in
\* between, carries the tool of that call
ResultsFollowCall(out) ==
    \A i, j \in 1..Len(out) :
        (/\ i < j
         /\ out[i].type = "tool_call" /\ out[j].type = "tool_result"
         /\ \A k \in (i + 1)..(j - 1) : out[k].type = "tool_result")
            => out[j].tool = out[i].tool

C39_LastToolNeverReset ==
    [][Emits
         => LET line == lastEmit'.line
                rule == lastEmit'.rule
            IN  /\ last_tool_called # "" => last_tool_called' # ""
                /\ (line.sensitive \/ line.requesting) => last_tool_called' = last_tool_called
                /\ rule \in {1, 2, 9, 10} => last_tool_called' = last_tool_called
                /\ (last_tool_called # "" /\ Len(stdout') > Len(stdout)
                      /\ stdout'[Len(stdout')].type = "tool_result")
                     => /\ stdout'[Len(stdout')].tool = last_tool_called
                        /\ last_tool_called' = last_tool_called
                /\ ResultsFollowCall(stdout')]_vars

\* A tool_call of write_file and two results after it whose output reads
\* like web_search's: both carry write_file
C39_Witness ==
    /\ lines = 3 /\ Len(stdout) = 3
    /\ stdout[1].type = "tool_call" /\ stdout[1].tool = "write_file"
    /\ stdout[2].type = "tool_result" /\ stdout[2].tool = "write_file"
    /\ stdout[3].type = "tool_result" /\ stdout[3].tool = "write_file"
    /\ infer_tool_from_output(lastEmit.line.output) = "web_search"
    /\ last_tool_called = "write_file"

\* A tool_call, a record in which nothing is recognised, then a result
C39_WitnessUnrecognised ==
    /\ lines = 3 /\ Len(stdout) = 2
    /\ stdout[1].type = "tool_call" /\ stdout[1].line = 1
    /\ stdout[2].type = "tool_result" /\ stdout[2].line = 3
    /\ stdout[2].tool = stdout[1].tool
    /\ lastEmit.last = stdout[1].tool

====
